---- MODULE Spec2Model ----
(***************************************************************************)
(* ChangeBot: the currency recognizer (src/services/recognizer.py).        *)
(*                                                                         *)
(* Text is a sequence of characters; a character is a one-element name:    *)
(* ASCII characters are themselves, Cyrillic letters are written cy_<name> *)
(* (CY_<NAME> in upper case) and the currency signs sign_<code>.  Python's *)
(* re engine is modelled by its backtracking order: every candidate list   *)
(* below is in the order the engine tries the candidates, and the first    *)
(* candidate that lets the rest of the pattern match is the match.         *)
(*                                                                         *)
(* A float is modelled exactly, as a decimal [m |-> mantissa, e |-> power  *)
(* of ten]; the multipliers of MULTIPLIER_MAP are powers of ten and are    *)
(* stored by their exponent.                                               *)
(***************************************************************************)
EXTENDS Integers, Sequences, FiniteSets, TLC

VARIABLES
  text,          \* parse: the argument text
  strict_mode,   \* parse: the argument strict_mode
  text_cleaned,  \* parse: text.lower()
  pc,            \* where the call is: "idle", "fast", "scan", "done", "raised", "normalized"
  pos,           \* finditer: the position the next search starts at
  results,       \* parse: the list of Price built so far
  trace,         \* the matches finditer has yielded so far, each with what it appended
  amount_str,    \* _normalize_amount: the argument of a direct call
  amount_out,    \* _normalize_amount: what the direct call returned
  calls,         \* recognize: how many calls have been made
  first_call,    \* recognize: the arguments and the result of the first call
  now,           \* time.time()
  ticks,         \* how many times the clock has moved
  rates_service, \* the RatesService singleton: rates, last_updated, _lock,
                 \* _consecutive_failures
  tasks,         \* the coroutines that call get_rates and convert, each with its locals
  last_failure,  \* the time the last failed _fetch_rates ended, -1 before any
  last_return,   \* the last call of get_rates or convert that returned, with what
                 \* it returned
  chat_settings, \* the chat_settings table: chat_id -> <<>> or <<target_currencies>>
  settings_cache,\* _settings_cache of dal.py: chat_id -> <<>> or <<entry>>
  dal_tasks,     \* the coroutines inside get_target_currencies and toggle_currency,
                 \* each with its own session
  dal_return,    \* the last of those calls that ended, with what it returned
  dal_calls      \* how many of those calls have begun

\* What a call of recognize leaves alone
call_vars == <<calls, first_call>>

\* The recognizer's own variables
recognizer_vars ==
  <<text, strict_mode, text_cleaned, pc, pos, results, trace, amount_str, amount_out,
    call_vars>>

clock_vars == <<now, ticks>>

rates_vars == <<rates_service, tasks, last_failure, last_return>>

\* What the recognizer never touches
dal_vars == <<chat_settings, settings_cache, dal_tasks, dal_return, dal_calls>>

outside_recognizer == <<clock_vars, rates_vars, dal_vars>>

vars == <<recognizer_vars, clock_vars, rates_vars, dal_vars>>

-----------------------------------------------------------------------------
(* Characters and character classes                                        *)

DigitSeq == <<"0", "1", "2", "3", "4", "5", "6", "7", "8", "9">>

LatinLowerSeq ==
  <<"a", "b", "c", "d", "e", "f", "g", "h", "i", "j", "k", "l", "m",
    "n", "o", "p", "q", "r", "s", "t", "u", "v", "w", "x", "y", "z">>

LatinUpperSeq ==
  <<"A", "B", "C", "D", "E", "F", "G", "H", "I", "J", "K", "L", "M",
    "N", "O", "P", "Q", "R", "S", "T", "U", "V", "W", "X", "Y", "Z">>

CyrillicLowerSeq ==
  <<"cy_a", "cy_b", "cy_v", "cy_g", "cy_d", "cy_e", "cy_zh", "cy_z", "cy_i", "cy_j",
    "cy_k", "cy_l", "cy_m", "cy_n", "cy_o", "cy_p", "cy_r", "cy_s", "cy_t", "cy_u",
    "cy_f", "cy_h", "cy_c", "cy_ch", "cy_sh", "cy_shch", "cy_hard", "cy_y", "cy_soft",
    "cy_eh", "cy_yu", "cy_ya">>

CyrillicUpperSeq ==
  <<"CY_A", "CY_B", "CY_V", "CY_G", "CY_D", "CY_E", "CY_ZH", "CY_Z", "CY_I", "CY_J",
    "CY_K", "CY_L", "CY_M", "CY_N", "CY_O", "CY_P", "CY_R", "CY_S", "CY_T", "CY_U",
    "CY_F", "CY_H", "CY_C", "CY_CH", "CY_SH", "CY_SHCH", "CY_HARD", "CY_Y", "CY_SOFT",
    "CY_EH", "CY_YU", "CY_YA">>

Range(s) == {s[i] : i \in DOMAIN s}

DigitChars == Range(DigitSeq)
UpperSeq == LatinUpperSeq \o CyrillicUpperSeq
LowerSeq == LatinLowerSeq \o CyrillicLowerSeq
UpperChars == Range(UpperSeq)
LetterChars == Range(LowerSeq) \cup UpperChars

\* \d
IsDigit(c) == c \in DigitChars
\* \s
IsSpace(c) == c \in {" ", "\t", "\n"}
\* [a-zA-Zа-яА-Я]
IsLetter(c) == c \in LetterChars
\* \w
IsWordChar(c) == IsLetter(c) \/ IsDigit(c) \/ c = "_"

\* str.lower(), one character
LowerChar(c) ==
  IF c \in UpperChars
    THEN LowerSeq[CHOOSE i \in DOMAIN UpperSeq : UpperSeq[i] = c]
    ELSE c

\* str.lower()
Lower(s) == [i \in DOMAIN s |-> LowerChar(s[i])]

-----------------------------------------------------------------------------
(* The class constants of CurrencyRecognizer                               *)

USD == <<"U", "S", "D">>
EUR == <<"E", "U", "R">>
RUB == <<"R", "U", "B">>
GBP == <<"G", "B", "P">>
CNY == <<"C", "N", "Y">>
KZT == <<"K", "Z", "T">>
TRY == <<"T", "R", "Y">>
JPY == <<"J", "P", "Y">>
BTC == <<"B", "T", "C">>
ETH == <<"E", "T", "H">>
TON == <<"T", "O", "N">>
USDT == <<"U", "S", "D", "T">>

VALID_CURRENCIES == {USD, EUR, RUB, GBP, CNY, KZT, TRY, JPY, BTC, ETH, TON, USDT}

\* The signs strict mode accepts
SYMBOLS ==
  {<<"$">>, <<"sign_eur">>, <<"sign_gbp">>,
   <<"sign_cny">>, <<"sign_rub">>, <<"sign_kzt">>, <<"sign_btc">>}

\* SLANG_MAP as the dict literal writes it: <<token, currency>>
SLANG_MAP_LITERAL ==
  {
    <<<<"cy_b","cy_a","cy_k","cy_s">>, USD>>,
    <<<<"cy_b","cy_a","cy_k","cy_s","cy_o","cy_v">>, USD>>,
    <<<<"cy_b","cy_a","cy_k","cy_s","cy_y">>, USD>>, <<<<"d","o","l","l","a","r">>, USD>>,
    <<<<"$">>, USD>>, <<<<"cy_d","cy_o","cy_l","cy_l","cy_a","cy_r">>, USD>>,
    <<<<"cy_d","cy_o","cy_l","cy_l","cy_a","cy_r","cy_a">>, USD>>,
    <<<<"cy_d","cy_o","cy_l","cy_l","cy_a","cy_r","cy_o","cy_v">>, USD>>,
    <<<<"cy_d","cy_o","cy_l","cy_l","cy_a","cy_r","cy_y">>, USD>>,
    <<<<"cy_e","cy_v","cy_r","cy_o">>, EUR>>, <<<<"e","u","r","o">>, EUR>>,
    <<<<"sign_eur">>, EUR>>, <<<<"cy_r","cy_u","cy_b">>, RUB>>,
    <<<<"cy_r","cy_u","cy_b","cy_l","cy_soft">>, RUB>>,
    <<<<"cy_r","cy_u","cy_b","cy_l","cy_e","cy_j">>, RUB>>, <<<<"cy_r">>, RUB>>,
    <<<<"r","u","b","l","e">>, RUB>>, <<<<"sign_rub">>, RUB>>,
    <<<<"cy_f","cy_u","cy_n","cy_t">>, GBP>>, <<<<"p","o","u","n","d">>, GBP>>,
    <<<<"sign_gbp">>, GBP>>, <<<<"cy_f","cy_u","cy_n","cy_t","cy_o","cy_v">>, GBP>>,
    <<<<"cy_f","cy_u","cy_n","cy_t","cy_a">>, GBP>>,
    <<<<"cy_t","cy_e","cy_n","cy_g","cy_e">>, KZT>>, <<<<"cy_t","cy_g">>, KZT>>,
    <<<<"sign_kzt">>, KZT>>, <<<<"cy_yu","cy_a","cy_n","cy_soft">>, CNY>>,
    <<<<"cy_yu","cy_a","cy_n","cy_e","cy_j">>, CNY>>, <<<<"cy_yu","cy_a","cy_n","cy_ya">>, CNY>>,
    <<<<"c","n","y">>, CNY>>, <<<<"sign_cny">>, CNY>>,
    <<<<"cy_b","cy_i","cy_t","cy_o","cy_k">>, BTC>>,
    <<<<"cy_b","cy_i","cy_t","cy_k","cy_a">>, BTC>>,
    <<<<"cy_b","cy_i","cy_t","cy_k","cy_o","cy_v">>, BTC>>, <<<<"b","t","c">>, BTC>>,
    <<<<"b","i","t","c","o","i","n">>, BTC>>, <<<<"sign_btc">>, BTC>>,
    <<<<"cy_eh","cy_f","cy_i","cy_r">>, ETH>>, <<<<"cy_eh","cy_f","cy_i","cy_r","cy_a">>, ETH>>,
    <<<<"cy_eh","cy_f","cy_i","cy_r","cy_o","cy_v">>, ETH>>, <<<<"e","t","h">>, ETH>>,
    <<<<"e","t","h","e","r","e","u","m">>, ETH>>, <<<<"t","o","n">>, TON>>,
    <<<<"cy_t","cy_o","cy_n">>, TON>>, <<<<"u","s","d","t">>, USDT>>,
    <<<<"t","e","t","h","e","r">>, USDT>>
  }

\* MULTIPLIER_MAP: <<token, power of ten of its factor>>
MULTIPLIER_MAP ==
  {
    <<<<"k">>, 3>>, <<<<"cy_k">>, 3>>, <<<<"m">>, 6>>, <<<<"cy_m">>, 6>>,
    <<<<"cy_k","cy_o","cy_s","cy_a","cy_r","cy_soft">>, 3>>,
    <<<<"cy_k","cy_o","cy_s","cy_a","cy_r","cy_ya">>, 3>>,
    <<<<"cy_k","cy_o","cy_s","cy_a","cy_r","cy_e","cy_j">>, 3>>,
    <<<<"cy_t","cy_o","cy_n","cy_n","cy_a">>, 3>>, <<<<"cy_l","cy_ya","cy_m">>, 6>>,
    <<<<"cy_l","cy_ya","cy_m","cy_o","cy_v">>, 6>>,
    <<<<"cy_t","cy_y","cy_s","cy_ya","cy_ch","cy_a">>, 3>>,
    <<<<"cy_t","cy_y","cy_s","cy_ya","cy_ch","cy_i">>, 3>>,
    <<<<"cy_t","cy_y","cy_s","cy_ya","cy_ch">>, 3>>,
    <<<<"cy_m","cy_i","cy_l","cy_l","cy_i","cy_o","cy_n">>, 6>>,
    <<<<"cy_m","cy_i","cy_l","cy_l","cy_i","cy_o","cy_n","cy_a">>, 6>>,
    <<<<"cy_m","cy_i","cy_l","cy_l","cy_i","cy_o","cy_n","cy_o","cy_v">>, 6>>,
    <<<<"cy_m","cy_l","cy_n">>, 6>>,
    <<<<"cy_m","cy_i","cy_l","cy_l","cy_i","cy_a","cy_r","cy_d">>, 9>>,
    <<<<"cy_m","cy_i","cy_l","cy_l","cy_i","cy_a","cy_r","cy_d","cy_a">>, 9>>,
    <<<<"cy_m","cy_i","cy_l","cy_l","cy_i","cy_a","cy_r","cy_d","cy_o","cy_v">>, 9>>,
    <<<<"cy_m","cy_l","cy_r","cy_d">>, 9>>,
    <<<<"cy_t","cy_r","cy_i","cy_l","cy_l","cy_i","cy_o","cy_n">>, 12>>,
    <<<<"cy_t","cy_r","cy_i","cy_l","cy_l","cy_i","cy_o","cy_n","cy_a">>, 12>>,
    <<<<"cy_t","cy_r","cy_i","cy_l","cy_l","cy_i","cy_o","cy_n","cy_o","cy_v">>, 12>>,
    <<<<"cy_t","cy_r","cy_l","cy_n">>, 12>>
  }

\* Slang terms that imply RUB when used as multipliers
IMPLIED_RUBLE_TOKENS ==
  {
    <<"cy_k","cy_o","cy_s","cy_a","cy_r","cy_soft">>,
    <<"cy_k","cy_o","cy_s","cy_a","cy_r","cy_ya">>,
    <<"cy_k","cy_o","cy_s","cy_a","cy_r","cy_e","cy_j">>, <<"cy_l","cy_ya","cy_m">>,
    <<"cy_l","cy_ya","cy_m","cy_o","cy_v">>, <<"cy_t","cy_o","cy_n","cy_n","cy_a">>
  }

\* SLANG_AMOUNT_CURRENCY: <<token, power of ten of its amount, currency>>
SLANG_AMOUNT_CURRENCY ==
  {
    <<<<"cy_k","cy_o","cy_s","cy_a","cy_r","cy_soft">>, 3, RUB>>,
    <<<<"cy_k","cy_o","cy_s","cy_a","cy_r","cy_ya">>, 3, RUB>>,
    <<<<"cy_k","cy_o","cy_s","cy_a","cy_r","cy_e","cy_j">>, 3, RUB>>,
    <<<<"cy_l","cy_ya","cy_m">>, 6, RUB>>, <<<<"cy_l","cy_ya","cy_m","cy_o","cy_v">>, 6, RUB>>
  }

Keys(map) == {p[1] : p \in map}

\* dict.get(key): the entry of key, for a key of the dict
Entry(map, key) == CHOOSE p \in map : p[1] = key

\* The class-body loop that adds every valid code, lowercased, to SLANG_MAP
SLANG_MAP ==
  SLANG_MAP_LITERAL \cup
    {<<Lower(c), c>> : c \in {v \in VALID_CURRENCIES : Lower(v) \notin Keys(SLANG_MAP_LITERAL)}}

SLANG_MAP_KEYS == Keys(SLANG_MAP)
MULTIPLIER_MAP_KEYS == Keys(MULTIPLIER_MAP)

\* Word style multipliers: the keys of MULTIPLIER_MAP longer than one character
WORD_MULTIPLIERS == {k \in MULTIPLIER_MAP_KEYS : Len(k) > 1}

\* A whitelist that takes every multiplier for a currency token
CURRENCY_TOKENS_WITH_MULTIPLIERS == SLANG_MAP_KEYS \cup MULTIPLIER_MAP_KEYS

\* The whitelist of currency tokens
CURRENCY_TOKENS == SLANG_MAP_KEYS \cup IMPLIED_RUBLE_TOKENS

\* The standalone slang tokens
SLANG_TOKENS == Keys(SLANG_AMOUNT_CURRENCY)

-----------------------------------------------------------------------------
(* Floats                                                                  *)

\* A float that float() could not parse: ValueError
ValueError == [m |-> 0 - 1, e |-> 0]

DigitValue(c) == (CHOOSE i \in DOMAIN DigitSeq : DigitSeq[i] = c) - 1

RECURSIVE IntOf(_)
IntOf(ds) ==
  IF ds = <<>> THEN 0
  ELSE 10 * IntOf(SubSeq(ds, 1, Len(ds) - 1)) + DigitValue(ds[Len(ds)])

\* The decimal m * 10^e in its one normal form: m has no trailing zero
RECURSIVE Canon(_, _)
Canon(m, e) ==
  IF m = 0 THEN [m |-> 0, e |-> 0]
  ELSE IF m % 10 = 0 THEN Canon(m \div 10, e + 1)
  ELSE [m |-> m, e |-> e]

\* float * float
Times(a, b) == Canon(a.m * b.m, a.e + b.e)

\* 10.0 ** k, the factor a multiplier token stands for
PowerOfTen(k) == [m |-> 1, e |-> k]


\* str.strip() of whitespace
RECURSIVE Strip(_)
Strip(s) ==
  IF s = <<>> THEN s
  ELSE IF IsSpace(s[1]) THEN Strip(Tail(s))
  ELSE IF IsSpace(s[Len(s)]) THEN Strip(SubSeq(s, 1, Len(s) - 1))
  ELSE s

\* float(str) for a string over digits, '.', ',' and whitespace
Float(str) ==
  LET t == Strip(str)
      dots == {i \in DOMAIN t : t[i] = "."}
      digits == SelectSeq(t, IsDigit)
  IN  IF /\ \A i \in DOMAIN t : IsDigit(t[i]) \/ t[i] = "."
         /\ Cardinality(dots) <= 1
         /\ digits # <<>>
        THEN IF dots = {}
               THEN Canon(IntOf(digits), 0)
               ELSE Canon(IntOf(digits), 0 - (Len(t) - (CHOOSE i \in dots : TRUE)))
        ELSE ValueError

\* str.rpartition(',')[2]: what follows the last comma
RECURSIVE TailAfterComma(_)
TailAfterComma(s) ==
  IF s = <<>> \/ s[Len(s)] = "," THEN <<>>
  ELSE Append(TailAfterComma(SubSeq(s, 1, Len(s) - 1)), s[Len(s)])

NotComma(c) == c # ","

\* str.replace(',', '')
RemoveCommas(s) == SelectSeq(s, NotComma)

\* str.replace(',', '.')
CommasToDots(s) == [i \in DOMAIN s |-> IF s[i] = "," THEN "." ELSE s[i]]

\* _normalize_amount as it was before the thousands separator was handled:
\* every comma becomes a decimal point
normalize_amount_naive(str) ==
  IF "," \notin Range(str) THEN Float(str) ELSE Float(CommasToDots(str))

\* CurrencyRecognizer._normalize_amount
normalize_amount(str) ==
  IF "," \notin Range(str) THEN Float(str)
  ELSE IF Len(TailAfterComma(str)) = 3
         THEN Float(RemoveCommas(str))
         ELSE Float(CommasToDots(str))

-----------------------------------------------------------------------------
(* The regular expressions.  A position i is the index of the next         *)
(* character to read; a match of s from i to j covers s[i] .. s[j-1].      *)

\* trie_regex_from_words, the trie: a node is the prefix that leads to it; ends are
\* the nodes marked __end__ and inner the nodes that have children.
trie_regex_from_words(words) ==
  LET nodes == UNION {{SubSeq(w, 1, n) : n \in 0..Len(w)} : w \in words}
  IN  [nodes |-> nodes,
       ends |-> words,
       inner |-> {SubSeq(x, 1, Len(x) - 1) : x \in nodes \ {<<>>}}]

\* _regex_from_trie: the regex of a node, as the ends of its matches of s at i in
\* the order the engine tries them.  A node without children is ""; a node that
\* ends a word and has children is "(?:children)?", greedy, so the longer words are
\* tried first; the children start with distinct characters, so at most one
\* alternative can match.
RECURSIVE regex_from_trie_shortest(_, _, _, _)
\* A trie whose optional groups are lazy, "(?:children)??": as a plain alternation
\* that lists a word before the longer words it begins, the shortest word first
regex_from_trie_shortest(trie, node, s, i) ==
  LET alts == IF i <= Len(s) /\ Append(node, s[i]) \in trie.nodes
                THEN regex_from_trie_shortest(trie, Append(node, s[i]), s, i + 1)
                ELSE <<>>
  IN  IF node \notin trie.inner THEN <<i>>
      ELSE IF node \in trie.ends THEN <<i>> \o alts
      ELSE alts

RECURSIVE regex_from_trie(_, _, _, _)
regex_from_trie(trie, node, s, i) ==
  LET alts == IF i <= Len(s) /\ Append(node, s[i]) \in trie.nodes
                THEN regex_from_trie(trie, Append(node, s[i]), s, i + 1)
                ELSE <<>>
  IN  IF node \notin trie.inner THEN <<i>>
      ELSE IF node \in trie.ends THEN alts \o <<i>>
      ELSE alts

\* The end of the longest run of digits, of whitespace, from i
RECURSIVE DigitRunEnd(_, _)
DigitRunEnd(s, i) ==
  IF i <= Len(s) /\ IsDigit(s[i]) THEN DigitRunEnd(s, i + 1) ELSE i

RECURSIVE SpaceRunEnd(_, _)
SpaceRunEnd(s, i) ==
  IF i <= Len(s) /\ IsSpace(s[i]) THEN SpaceRunEnd(s, i + 1) ELSE i

\* <<hi, hi-1, ..., lo>>: a greedy repetition gives back one character at a time
RECURSIVE Downto(_, _)
Downto(hi, lo) == IF hi < lo THEN <<>> ELSE <<hi>> \o Downto(hi - 1, lo)

\* \d+
DigitsEnds(s, i) == Downto(DigitRunEnd(s, i), i + 1)

\* \s*
SpacesEnds(s, i) == Downto(SpaceRunEnd(s, i), i)

\* (?:[.,]\d+)? after \d+ ended at j
FractionEnds(s, j) ==
  (IF j <= Len(s) /\ s[j] \in {".", ","} THEN DigitsEnds(s, j + 1) ELSE <<>>) \o <<j>>

\* \d+(?:[.,]\d+)?
RECURSIVE NumberEndsOver(_, _)
NumberEndsOver(s, ends) ==
  IF ends = <<>> THEN <<>>
  ELSE FractionEnds(s, Head(ends)) \o NumberEndsOver(s, Tail(ends))

RECURSIVE NumberCharsEnd(_, _)
NumberCharsEnd(s, i) ==
  IF i <= Len(s) /\ (IsDigit(s[i]) \/ s[i] \in {".", ","})
    THEN NumberCharsEnd(s, i + 1)
    ELSE i

\* A number pattern that takes any run of digits and separators: \d[\d.,]*
NumberEndsAnyRun(s, i) ==
  IF i <= Len(s) /\ IsDigit(s[i]) THEN Downto(NumberCharsEnd(s, i), i + 1) ELSE <<>>

NumberEnds(s, i) == NumberEndsOver(s, DigitsEnds(s, i))

\* _SUFFIX_REGEX: [kкmм](?![a-zA-Zа-яА-Я])
SUFFIX_REGEX(s, i) ==
  IF /\ i <= Len(s)
     /\ s[i] \in {"k", "cy_k", "m", "cy_m"}
     /\ ~(i + 1 <= Len(s) /\ IsLetter(s[i + 1]))
    THEN <<i + 1>>
    ELSE <<>>

\* _WORD_REGEX
WORD_TRIE == trie_regex_from_words(WORD_MULTIPLIERS)
WORD_REGEX(s, i) == regex_from_trie(WORD_TRIE, <<>>, s, i)

\* MULTIPLIER_REGEX: (?:suffix|word)
MULTIPLIER_REGEX(s, i) == SUFFIX_REGEX(s, i) \o WORD_REGEX(s, i)

\* (MULTIPLIER_REGEX)?: the multiplier, then no multiplier
OptionalMultiplierEnds(s, i) == MULTIPLIER_REGEX(s, i) \o <<i>>

\* _CURRENCY_TOKEN_REGEX
CURRENCY_TOKEN_TRIE == trie_regex_from_words(CURRENCY_TOKENS)
CURRENCY_TOKEN_REGEX(s, i) == regex_from_trie(CURRENCY_TOKEN_TRIE, <<>>, s, i)

\* _SLANG_REGEX
SLANG_TRIE == trie_regex_from_words(SLANG_TOKENS)
SLANG_REGEX(s, i) == regex_from_trie(SLANG_TRIE, <<>>, s, i)

\* A match object: kind is the alternative of COMBINED_PATTERN that matched
\* ("start": groups 1-3, "end": groups 4-6, "slang": group 7); a group that did
\* not take part is <<>> (None).
Match(kind, start, end, amount, multiplier, currency, word) ==
  [kind |-> kind, start |-> start, end |-> end, amount |-> amount,
   multiplier |-> multiplier, currency |-> currency, word |-> word]

NoMatch == Match("none", 0, 0, <<>>, <<>>, <<>>, <<>>)

Slice(s, i, j) == SubSeq(s, i, j - 1)

\* Backtracking: the first alternative that matches is the match
FirstMatch(m, otherwise) == IF m # NoMatch THEN m ELSE otherwise

\* PATTERN_START: (\d+(?:[.,]\d+)?)\s*(MULTIPLIER)?\s*(CURRENCY_TOKEN) at i.
\* s[i..ne) is the number, s[w1..me) the multiplier, s[w2..) the currency token
\* with the ends ces; the token is the last element, so its first end matches.
StartAtCurrency(s, i, ne, w1, me, w2, ces) ==
  IF ces = <<>> THEN NoMatch
  ELSE Match("start", i, Head(ces), Slice(s, i, ne), Slice(s, w1, me),
             Slice(s, w2, Head(ces)), <<>>)

\* w2s: the ends of the second \s* still to try
RECURSIVE StartFromSpaces2(_, _, _, _, _, _)
StartFromSpaces2(s, i, ne, w1, me, w2s) ==
  IF w2s = <<>> THEN NoMatch
  ELSE FirstMatch(StartAtCurrency(s, i, ne, w1, me, Head(w2s),
                                  CURRENCY_TOKEN_REGEX(s, Head(w2s))),
                  StartFromSpaces2(s, i, ne, w1, me, Tail(w2s)))

RECURSIVE StartFromMultiplier(_, _, _, _, _)
StartFromMultiplier(s, i, ne, w1, mes) ==
  IF mes = <<>> THEN NoMatch
  ELSE FirstMatch(StartFromSpaces2(s, i, ne, w1, Head(mes), SpacesEnds(s, Head(mes))),
                  StartFromMultiplier(s, i, ne, w1, Tail(mes)))

RECURSIVE StartFromSpaces1(_, _, _, _)
StartFromSpaces1(s, i, ne, w1s) ==
  IF w1s = <<>> THEN NoMatch
  ELSE FirstMatch(StartFromMultiplier(s, i, ne, Head(w1s),
                                      OptionalMultiplierEnds(s, Head(w1s))),
                  StartFromSpaces1(s, i, ne, Tail(w1s)))

RECURSIVE StartFromNumber(_, _, _)
StartFromNumber(s, i, nes) ==
  IF nes = <<>> THEN NoMatch
  ELSE FirstMatch(StartFromSpaces1(s, i, Head(nes), SpacesEnds(s, Head(nes))),
                  StartFromNumber(s, i, Tail(nes)))

PATTERN_START(s, i) == StartFromNumber(s, i, NumberEnds(s, i))

\* The end of the currency-first pattern without its optional multiplier:
\* (CURRENCY_TOKEN)\s*(\d+(?:[.,]\d+)?)
EndAtNumberNoMultiplier(s, i, ce, w1, ne) ==
  Match("end", i, ne, Slice(s, w1, ne), <<>>, Slice(s, i, ce), <<>>)

\* PATTERN_END: (CURRENCY_TOKEN)\s*(\d+(?:[.,]\d+)?)\s*(MULTIPLIER)? at i.
\* s[i..ce) is the currency token and s[w1..ne) the number.  After the number
\* nothing can fail: the second \s* and the optional multiplier each take their
\* first (greediest) end.
EndAtMultiplier(s, i, ce, w1, ne, w2, me) ==
  Match("end", i, me, Slice(s, w1, ne), Slice(s, w2, me), Slice(s, i, ce), <<>>)

EndAtSpaces2(s, i, ce, w1, ne, w2) ==
  EndAtMultiplier(s, i, ce, w1, ne, w2, Head(OptionalMultiplierEnds(s, w2)))

EndAtNumber(s, i, ce, w1, ne) ==
  EndAtSpaces2(s, i, ce, w1, ne, Head(SpacesEnds(s, ne)))

EndAtSpaces1(s, i, ce, w1, nes) ==
  IF nes = <<>> THEN NoMatch ELSE EndAtNumber(s, i, ce, w1, Head(nes))

\* w1s: the ends of the first \s* still to try
RECURSIVE EndFromSpaces(_, _, _, _)
EndFromSpaces(s, i, ce, w1s) ==
  IF w1s = <<>> THEN NoMatch
  ELSE FirstMatch(EndAtSpaces1(s, i, ce, Head(w1s), NumberEnds(s, Head(w1s))),
                  EndFromSpaces(s, i, ce, Tail(w1s)))

RECURSIVE EndFromCurrency(_, _, _)
EndFromCurrency(s, i, ces) ==
  IF ces = <<>> THEN NoMatch
  ELSE FirstMatch(EndFromSpaces(s, i, Head(ces), SpacesEnds(s, Head(ces))),
                  EndFromCurrency(s, i, Tail(ces)))

PATTERN_END(s, i) == EndFromCurrency(s, i, CURRENCY_TOKEN_REGEX(s, i))

\* \b at position j
WordBoundary(s, j) ==
  (j - 1 >= 1 /\ IsWordChar(s[j - 1])) # (j <= Len(s) /\ IsWordChar(s[j]))

\* STANDALONE_SLANG_PATTERN: (?<!\d)\s*(?<!\d\s)(SLANG)\b at i
RECURSIVE SlangFromWord(_, _, _, _)
SlangFromWord(s, i, w, es) ==
  IF es = <<>> THEN NoMatch
  ELSE IF WordBoundary(s, Head(es))
         THEN Match("slang", i, Head(es), <<>>, <<>>, <<>>, Slice(s, w, Head(es)))
         ELSE SlangFromWord(s, i, w, Tail(es))

\* (?<!\d\s) at w, then the word
SlangAtWord(s, i, w) ==
  IF w - 2 >= 1 /\ IsDigit(s[w - 2]) /\ IsSpace(s[w - 1])
    THEN NoMatch
    ELSE SlangFromWord(s, i, w, SLANG_REGEX(s, w))

RECURSIVE SlangFromSpaces(_, _, _)
SlangFromSpaces(s, i, ws) ==
  IF ws = <<>> THEN NoMatch
  ELSE FirstMatch(SlangAtWord(s, i, Head(ws)), SlangFromSpaces(s, i, Tail(ws)))

STANDALONE_SLANG_PATTERN(s, i) ==
  IF i - 1 >= 1 /\ IsDigit(s[i - 1]) THEN NoMatch
  ELSE SlangFromSpaces(s, i, SpacesEnds(s, i))

\* COMBINED_PATTERN at i: the three alternatives in the order written
COMBINED_PATTERN(s, i) ==
  FirstMatch(PATTERN_START(s, i),
             FirstMatch(PATTERN_END(s, i), STANDALONE_SLANG_PATTERN(s, i)))

\* A finditer that resumes one character after the start of the match, so that
\* matches may overlap
NextSearchStartOverlapping(m) == m.start + 1

\* finditer: where the search for the next match starts.  No pattern here matches
\* the empty string, so it is the end of the match just yielded.
NextSearchStart(m) == m.end

\* finditer: the leftmost match of the pattern at or after i
RECURSIVE SearchCombined(_, _)
SearchCombined(s, i) ==
  IF i > Len(s) THEN NoMatch
  ELSE FirstMatch(COMBINED_PATTERN(s, i), SearchCombined(s, i + 1))

RECURSIVE SearchSlang(_, _)
SearchSlang(s, i) ==
  IF i > Len(s) THEN NoMatch
  ELSE FirstMatch(STANDALONE_SLANG_PATTERN(s, i), SearchSlang(s, i + 1))

\* HAS_DIGIT_PATTERN.search(text) is not None
HasDigits(s) == \E i \in DOMAIN s : IsDigit(s[i])

-----------------------------------------------------------------------------
(* CurrencyRecognizer.parse                                                *)

Price(amount, currency) == [amount |-> amount, currency |-> currency]

\* multiplier = 1.0; if multiplier_str: multiplier = MULTIPLIER_MAP.get(multiplier_str, 1.0)
MultiplierOf(multiplier_str) ==
  IF multiplier_str # <<>> /\ multiplier_str \in MULTIPLIER_MAP_KEYS
    THEN PowerOfTen(Entry(MULTIPLIER_MAP, multiplier_str)[2])
    ELSE PowerOfTen(0)

\* The loop body for groups 1-3 emitting the captured token in place of its code
StartPricesRawToken(m, strict) ==
  LET amount == normalize_amount(m.amount)
      currency_raw == m.currency
      multiplier == MultiplierOf(m.multiplier)
  IN  IF strict /\ currency_raw \notin SYMBOLS THEN <<>>
      ELSE IF currency_raw \in MULTIPLIER_MAP_KEYS /\ currency_raw \notin SLANG_MAP_KEYS
        THEN IF currency_raw \in IMPLIED_RUBLE_TOKENS
               THEN <<Price(Times(amount,
                                  Times(multiplier,
                                        PowerOfTen(Entry(MULTIPLIER_MAP, currency_raw)[2]))),
                            RUB)>>
               ELSE <<>>
      ELSE <<Price(Times(amount, multiplier), currency_raw)>>

\* The loop body for groups 1-3 without the strict mode check
StartPricesNoStrictCheck(m, strict) ==
  LET amount == normalize_amount(m.amount)
      currency_raw == m.currency
      multiplier == MultiplierOf(m.multiplier)
  IN  IF currency_raw \in MULTIPLIER_MAP_KEYS /\ currency_raw \notin SLANG_MAP_KEYS
        THEN IF currency_raw \in IMPLIED_RUBLE_TOKENS
               THEN <<Price(Times(amount,
                                  Times(multiplier,
                                        PowerOfTen(Entry(MULTIPLIER_MAP, currency_raw)[2]))),
                            RUB)>>
               ELSE <<>>
      ELSE IF currency_raw \in SLANG_MAP_KEYS
        THEN <<Price(Times(amount, multiplier), Entry(SLANG_MAP, currency_raw)[2])>>
        ELSE <<>>

\* The loop body for groups 1-3 with "multiplier = MULTIPLIER_MAP[currency_raw]":
\* the token's factor overwrites the captured multiplier
StartPricesOverwriting(m, strict) ==
  LET amount == normalize_amount(m.amount)
      currency_raw == m.currency
      multiplier == MultiplierOf(m.multiplier)
  IN  IF strict /\ currency_raw \notin SYMBOLS THEN <<>>
      ELSE IF currency_raw \in MULTIPLIER_MAP_KEYS /\ currency_raw \notin SLANG_MAP_KEYS
        THEN IF currency_raw \in IMPLIED_RUBLE_TOKENS
               THEN <<Price(Times(amount,
                                  PowerOfTen(Entry(MULTIPLIER_MAP, currency_raw)[2])),
                            RUB)>>
               ELSE <<>>
      ELSE IF currency_raw \in SLANG_MAP_KEYS
        THEN <<Price(Times(amount, multiplier), Entry(SLANG_MAP, currency_raw)[2])>>
        ELSE <<>>

\* The body of the loop for groups 1-3: what it appends to results
StartPrices(m, strict) ==
  LET amount == normalize_amount(m.amount)
      currency_raw == m.currency
      multiplier == MultiplierOf(m.multiplier)
  IN  IF strict /\ currency_raw \notin SYMBOLS THEN <<>>
      ELSE IF currency_raw \in MULTIPLIER_MAP_KEYS /\ currency_raw \notin SLANG_MAP_KEYS
        THEN IF currency_raw \in IMPLIED_RUBLE_TOKENS
               THEN <<Price(Times(amount,
                                  Times(multiplier,
                                        PowerOfTen(Entry(MULTIPLIER_MAP, currency_raw)[2]))),
                            RUB)>>
               ELSE <<>>
      ELSE IF currency_raw \in SLANG_MAP_KEYS
        THEN <<Price(Times(amount, multiplier), Entry(SLANG_MAP, currency_raw)[2])>>
        ELSE <<>>

\* The loop body for groups 4-6 without the multiplier of group 6
EndPricesIgnoringMultiplier(m, strict) ==
  IF strict /\ m.currency \notin SYMBOLS THEN <<>>
  ELSE IF m.currency \notin SLANG_MAP_KEYS THEN <<>>
  ELSE <<Price(normalize_amount(m.amount), Entry(SLANG_MAP, m.currency)[2])>>

\* The body of the loop for groups 4-6
EndPrices(m, strict) ==
  LET amount == normalize_amount(m.amount)
      currency_raw == m.currency
  IN  IF strict /\ currency_raw \notin SYMBOLS THEN <<>>
      ELSE IF currency_raw \notin SLANG_MAP_KEYS THEN <<>>
      ELSE <<Price(Times(amount, MultiplierOf(m.multiplier)),
                   Entry(SLANG_MAP, currency_raw)[2])>>

\* val, curr = SLANG_AMOUNT_CURRENCY[word], for a word of the table
SlangPrice(word) ==
  LET e == Entry(SLANG_AMOUNT_CURRENCY, word) IN Price(PowerOfTen(e[2]), e[3])

\* The body of the loop for group 7
SlangPrices(m, strict) ==
  IF ~strict /\ m.word \in SLANG_TOKENS THEN <<SlangPrice(m.word)>> ELSE <<>>

\* A fast path that reads the word as a currency token of one unit
FastPathPricesAsCurrency(m) ==
  IF m.word \in IMPLIED_RUBLE_TOKENS THEN <<Price([m |-> 1, e |-> 0], RUB)>> ELSE <<>>

\* The body of the loop of the path for text without digits
FastPathPrices(m) ==
  IF m.word \in SLANG_TOKENS THEN <<SlangPrice(m.word)>> ELSE <<>>

\* The body of the loop over COMBINED_PATTERN.finditer
ScanPrices(m, strict) ==
  IF m.kind = "start" THEN StartPrices(m, strict)
  ELSE IF m.kind = "end" THEN EndPrices(m, strict)
  ELSE SlangPrices(m, strict)

\* float() raising inside the loop leaves parse by the exception
Raises(m) == m.kind \in {"start", "end"} /\ normalize_amount(m.amount) = ValueError

-----------------------------------------------------------------------------
(* The inputs                                                              *)

\* The longest text, in chunks
MaxChunks == 4

\* The longest string passed to _normalize_amount directly
MaxLiteral == 6

\* The pieces texts are made of: "1", "000", " ", ",", ".", "k", "$", "USD",
\* the slang word for a million (a key of MULTIPLIER_MAP, IMPLIED_RUBLE_TOKENS and
\* SLANG_AMOUNT_CURRENCY) and the ending that makes it the longer key
Chunks ==
  { <<"1">>, <<"0", "0", "0">>, <<" ">>, <<",">>, <<".">>, <<"k">>, <<"$">>,
    <<"U", "S", "D">>, <<"cy_l", "cy_ya", "cy_m">>, <<"cy_o", "cy_v">> }

RECURSIVE Flatten(_)
Flatten(ss) == IF ss = <<>> THEN <<>> ELSE Head(ss) \o Flatten(Tail(ss))

Texts == {Flatten(cs) : cs \in UNION {[1..n -> Chunks] : n \in 0..MaxChunks}}

\* The number of calls of recognize in a row
MaxCalls == 3

\* The longest text of a call that is one of several, in chunks
MaxCallChunks == 1

\* The pieces of those texts: the chunks, two priced phrases, "1$" and "USD1",
\* and the unit of the comment on the removed stop words, alone and in
\* "1 gb USD"
CallChunks ==
  Chunks \cup {<<"1", "$">>, USD \o <<"1">>, <<"g", "b">>,
               <<"1", " ", "g", "b", " ">> \o USD}

CallTexts == {Flatten(cs) : cs \in UNION {[1..n -> CallChunks] : n \in 0..MaxCallChunks}}

\* Texts with two separators: three digit groups, then a currency token
GroupDigits == {<<"1">>, <<"0", "5">>, <<"0", "0", "0">>}

GroupSeparators == {<<",">>, <<".">>}

GroupCurrencies == {<<"$">>, <<" ">> \o USD, <<" ">> \o Lower(EUR)}

GroupTexts ==
  {g1 \o s1 \o g2 \o s2 \o g3 \o c :
     g1 \in GroupDigits, s1 \in GroupSeparators, g2 \in GroupDigits,
     s2 \in GroupSeparators, g3 \in GroupDigits, c \in GroupCurrencies}

LiteralChars == {"0", "1", "5", ",", "."}

Literals == UNION {[1..n -> LiteralChars] : n \in 1..MaxLiteral}

-----------------------------------------------------------------------------
(* RatesService (src/services/rates.py)                                    *)

CACHE_TTL == 3600

MAX_CONSECUTIVE_FAILURES == 3

\* min(3600, 60 * 2 ** (failures - MAX_CONSECUTIVE_FAILURES)): the cap and the base
BACKOFF_CAP == 3600

BACKOFF_BASE == 60

\* time.time() when the service is constructed, in seconds since the epoch
StartTime == 1700000000

\* How often the clock moves, how far the failure counter is followed
MaxTicks == 2

MaxFailures == 4

\* The steps of the clock, in seconds: the life of a settings cache entry, just
\* over CACHE_TTL
TickSteps == {300, 3601}

Coroutines == {"t1", "t2"}

RECURSIVE PowerOfTwo(_)
PowerOfTwo(k) == IF k <= 0 THEN 1 ELSE 2 * PowerOfTwo(k - 1)

Min(a, b) == IF a < b THEN a ELSE b

\* backoff_time of get_rates
BackoffTime(failures) ==
  Min(BACKOFF_CAP, BACKOFF_BASE * PowerOfTwo(failures - MAX_CONSECUTIVE_FAILURES))

\* A rate table is a set of <<code, rate>>; {} is the empty dict.  What
\* _fetch_rates can return on success: new_rates always holds USD, a ticker
\* without data is skipped, a direct ticker may read 0.
FetchedTables ==
  { {<<USD, 1>>},
    {<<USD, 1>>, <<EUR, 2>>},
    {<<USD, 1>>, <<EUR, 0>>, <<RUB, 4>>} }

\* Tables assigned to service.rates from outside, as the tests do
PresetTables ==
  FetchedTables \cup { {}, {<<EUR, 2>>, <<RUB, 4>>}, {<<USD, 2>>, <<RUB, 0>>} }

\* str.upper()
UpperChar(c) ==
  IF c \in Range(LowerSeq)
    THEN UpperSeq[CHOOSE i \in DOMAIN LowerSeq : LowerSeq[i] = c]
    ELSE c

Upper(s) == [i \in DOMAIN s |-> UpperChar(s[i])]

\* The arguments of convert
Amounts == {3}

CurrencyArguments == {USD, Lower(EUR), RUB, KZT}

RECURSIVE GCD(_, _)
GCD(a, b) == IF b = 0 THEN a ELSE GCD(b, a % b)

\* The float n / d, exactly
Fraction(n, d) ==
  IF n = 0 THEN [num |-> 0, den |-> 1]
  ELSE [num |-> n \div GCD(n, d), den |-> d \div GCD(n, d)]

\* dict.get(key): <<rate>>, or <<>> for None
Get(table, key) == IF key \in Keys(table) THEN <<Entry(table, key)[2]>> ELSE <<>>

\* convert after "rates = await self.get_rates()": rates["USD"] = 1.0 when the
\* table is not empty and lacks USD
WithUSD(table) ==
  IF table # {} /\ USD \notin Keys(table) THEN table \cup {<<USD, 1>>} ELSE table

\* The fallback of convert for a currency rates.get did not find
RateOrUSD(found, code) == IF found = <<>> /\ code = USD THEN <<1>> ELSE found

\* A convert whose zero check is on the target rate
ConvertCheckingTargetRate(table, amount, from_curr, to_curr) ==
  LET rates == WithUSD(table)
      rate_from == RateOrUSD(Get(rates, Upper(from_curr)), Upper(from_curr))
      rate_to == RateOrUSD(Get(rates, Upper(to_curr)), Upper(to_curr))
  IN  IF table = {} THEN Fraction(0, 1)
      ELSE IF rate_from = <<>> THEN Fraction(0, 1)
      ELSE IF rate_to = <<>> THEN Fraction(0, 1)
      ELSE IF rate_to[1] = 0 THEN Fraction(0, 1)
      ELSE Fraction(amount * rate_from[1], rate_to[1])

\* convert, from the table get_rates returned to the value returned
ConvertValue(table, amount, from_curr, to_curr) ==
  LET rates == WithUSD(table)
      rate_from == RateOrUSD(Get(rates, Upper(from_curr)), Upper(from_curr))
      rate_to == RateOrUSD(Get(rates, Upper(to_curr)), Upper(to_curr))
  IN  IF table = {} THEN Fraction(0, 1)
      ELSE IF rate_from = <<>> THEN Fraction(0, 1)
      ELSE IF rate_to = <<>> THEN Fraction(0, 1)
      ELSE IF rate_from[1] = 0 THEN Fraction(0, 1)
      ELSE Fraction(amount * rate_to[1], rate_from[1])

NoArguments == [amount |-> 0, from_curr |-> <<>>, to_curr |-> <<>>]

\* A coroutine that is not inside a call.  Inside one it keeps the operation and
\* its arguments, the local now of get_rates, and whether the call was made within
\* the backoff interval
IdleTask ==
  [pc |-> "idle", op |-> "none", args |-> NoArguments, now |-> 0, backoff_due |-> FALSE]

\* Nothing has returned yet
NoReturn ==
  [task |-> "none", op |-> "none", args |-> NoArguments, backoff_due |-> FALSE,
   fetched |-> FALSE, rates |-> {}, value |-> Fraction(0, 1)]

InitClock ==
  /\ now = StartTime
  /\ ticks = 0

\* RatesService.__new__
InitService(table, updated) ==
  rates_service = [rates |-> table, last_updated |-> updated, lock |-> "free",
                   consecutive_failures |-> 0]

InitRates ==
  /\ InitService({}, 0)
  /\ tasks = [t \in Coroutines |-> IdleTask]
  /\ last_failure = 0 - 1
  /\ last_return = NoReturn

\* "if not self.rates or (now - self.last_updated > self.CACHE_TTL)"
NeedsUpdate(n) ==
  rates_service.rates = {} \/ n - rates_service.last_updated > CACHE_TTL

\* The backoff test of get_rates
InBackoff(n) ==
  /\ rates_service.consecutive_failures >= MAX_CONSECUTIVE_FAILURES
  /\ n - rates_service.last_updated < BackoffTime(rates_service.consecutive_failures)

\* The call is made sooner than the backoff interval after the last failed fetch
\* while the failure counter has reached MAX_CONSECUTIVE_FAILURES
BackoffDue(n) ==
  /\ rates_service.consecutive_failures >= MAX_CONSECUTIVE_FAILURES
  /\ last_failure >= 0
  /\ n - last_failure < BackoffTime(rates_service.consecutive_failures)

\* What the call of task t returns when get_rates hands it table; a convert goes
\* on to its end with it
Returned(t, task, table, fetched) ==
  [task |-> t, op |-> task.op, args |-> task.args, backoff_due |-> task.backoff_due,
   fetched |-> fetched, rates |-> table,
   value |-> IF task.op = "convert"
               THEN ConvertValue(table, task.args.amount, task.args.from_curr,
                                 task.args.to_curr)
               ELSE Fraction(0, 1)]

\* What self.rates is after the task got table back: convert adds USD to the dict
\* it was handed, which is self.rates itself
RatesAfterReturn(task, table) == IF task.op = "convert" THEN WithUSD(table) ELSE table

\* A get_rates without the lock: every caller that finds the cache empty or
\* stale starts _fetch_rates at once
CallWithoutLock(t, op, args) ==
  /\ \E begun \in {[IdleTask EXCEPT !.op = op, !.args = args, !.now = now,
                                    !.backoff_due = BackoffDue(now)]} :
       IF InBackoff(now) \/ ~NeedsUpdate(now)
         THEN /\ last_return' = Returned(t, begun, rates_service.rates, FALSE)
              /\ rates_service' =
                   [rates_service EXCEPT !.rates = RatesAfterReturn(begun, @)]
              /\ UNCHANGED tasks
         ELSE /\ tasks' = [tasks EXCEPT ![t] = [begun EXCEPT !.pc = "fetch"]]
              /\ rates_service' = [rates_service EXCEPT !.lock = t]
              /\ UNCHANGED last_return
  /\ UNCHANGED <<recognizer_vars, clock_vars, last_failure, dal_vars>>

\* Task t, in get_rates (op "get_rates") or in the get_rates of convert (op
\* "convert"), runs to the first point where it waits: it returns self.rates
\* (backoff, or a fresh cache), starts _fetch_rates under the lock, or waits for
\* the lock.
Call(t, op, args) ==
  /\ \E begun \in {[IdleTask EXCEPT !.op = op, !.args = args, !.now = now,
                                    !.backoff_due = BackoffDue(now)]} :
       IF InBackoff(now) \/ ~NeedsUpdate(now)
         THEN /\ last_return' = Returned(t, begun, rates_service.rates, FALSE)
              /\ rates_service' =
                   [rates_service EXCEPT !.rates = RatesAfterReturn(begun, @)]
              /\ UNCHANGED tasks
         ELSE IF rates_service.lock = "free"
           THEN /\ tasks' = [tasks EXCEPT ![t] = [begun EXCEPT !.pc = "fetch"]]
                /\ rates_service' = [rates_service EXCEPT !.lock = t]
                /\ UNCHANGED last_return
           ELSE /\ tasks' = [tasks EXCEPT ![t] = [begun EXCEPT !.pc = "lock"]]
                /\ UNCHANGED <<rates_service, last_return>>
  /\ UNCHANGED <<recognizer_vars, clock_vars, last_failure, dal_vars>>

GetRates ==
  \E t \in Coroutines :
    /\ tasks[t].pc = "idle"
    /\ Call(t, "get_rates", NoArguments)

Convert ==
  \E t \in Coroutines, a \in Amounts, f \in CurrencyArguments, c \in CurrencyArguments :
    /\ tasks[t].pc = "idle"
    /\ Call(t, "convert", [amount |-> a, from_curr |-> f, to_curr |-> c])

\* "async with self._lock" once the lock is free: now is read again and the
\* cache tested again
AcquireLock ==
  \E t \in Coroutines :
    /\ tasks[t].pc = "lock"
    /\ rates_service.lock = "free"
    /\ IF NeedsUpdate(now)
         THEN /\ tasks' = [tasks EXCEPT ![t].pc = "fetch", ![t].now = now]
              /\ rates_service' = [rates_service EXCEPT !.lock = t]
              /\ UNCHANGED last_return
         ELSE /\ tasks' = [tasks EXCEPT ![t] = IdleTask]
              /\ last_return' = Returned(t, tasks[t], rates_service.rates, FALSE)
              /\ rates_service' =
                   [rates_service EXCEPT !.rates = RatesAfterReturn(tasks[t], @)]
    /\ UNCHANGED <<recognizer_vars, clock_vars, last_failure, dal_vars>>

\* A get_rates that stores whatever _fetch_rates returned, None included, without
\* the test "if new_rates"
FetchFailsStoringNone ==
  \E t \in Coroutines :
    /\ tasks[t].pc = "fetch"
    /\ rates_service.consecutive_failures < MaxFailures
    /\ tasks' = [tasks EXCEPT ![t] = IdleTask]
    /\ last_return' = Returned(t, tasks[t], {}, TRUE)
    /\ rates_service' =
         [rates_service EXCEPT
            !.consecutive_failures = @ + 1,
            !.lock = "free",
            !.rates = {},
            !.last_updated = tasks[t].now]
    /\ last_failure' = now
    /\ UNCHANGED <<recognizer_vars, clock_vars, dal_vars>>

\* _fetch_rates times out or raises: it counts the failure and returns None;
\* get_rates keeps the stale table and returns it
FetchFails ==
  \E t \in Coroutines :
    /\ tasks[t].pc = "fetch"
    /\ rates_service.consecutive_failures < MaxFailures
    /\ tasks' = [tasks EXCEPT ![t] = IdleTask]
    /\ last_return' = Returned(t, tasks[t], rates_service.rates, TRUE)
    /\ rates_service' =
         [rates_service EXCEPT
            !.consecutive_failures = @ + 1,
            !.lock = "free",
            !.rates = RatesAfterReturn(tasks[t], @)]
    /\ last_failure' = now
    /\ UNCHANGED <<recognizer_vars, clock_vars, dal_vars>>

\* _fetch_rates returns new_rates: the counter is reset when a rate besides USD
\* was read; get_rates stores the table with the time it read under the lock
FetchSucceeds ==
  \E t \in Coroutines, new_rates \in FetchedTables :
    /\ tasks[t].pc = "fetch"
    /\ tasks' = [tasks EXCEPT ![t] = IdleTask]
    /\ last_return' = Returned(t, tasks[t], new_rates, TRUE)
    /\ rates_service' =
         [rates_service EXCEPT
            !.consecutive_failures = IF Cardinality(new_rates) > 1 THEN 0 ELSE @,
            !.rates = RatesAfterReturn(tasks[t], new_rates),
            !.last_updated = tasks[t].now,
            !.lock = "free"]
    /\ UNCHANGED <<recognizer_vars, clock_vars, last_failure, dal_vars>>

\* Time passes
Tick ==
  /\ ticks < MaxTicks
  /\ ticks' = ticks + 1
  /\ \E d \in TickSteps : now' = now + d
  /\ UNCHANGED <<recognizer_vars, rates_vars, dal_vars>>

NextRates ==
  \/ GetRates
  \/ AcquireLock
  \/ FetchFails
  \/ FetchSucceeds
  \/ Tick

-----------------------------------------------------------------------------
(* The settings cache (src/database/dal.py)                                *)

DEFAULT_CURRENCIES == <<USD, EUR, RUB>>

\* CACHE_TTL of dal.py
SETTINGS_CACHE_TTL == 300

ChatIds == {12345}

\* The currency_code arguments of toggle_currency
ToggleCodes == {EUR, RUB}

DalCoroutines == {"d1", "d2"}

\* How many calls of the data access layer are followed
MaxDalCalls == 3

\* list.remove(code): the list without the first occurrence of code
RemoveFirst(list, code) ==
  LET i == CHOOSE k \in DOMAIN list :
             list[k] = code /\ \A j \in 1..(k - 1) : list[j] # code
  IN  SubSeq(list, 1, i - 1) \o SubSeq(list, i + 1, Len(list))

\* current_list of toggle_currency after the toggle
Toggled(list, code) ==
  IF code \in Range(list) THEN RemoveFirst(list, code) ELSE Append(list, code)

\* A coroutine outside the data access layer.  Inside a call it keeps the call
\* and its arguments, the local now, whether the call found no cache entry or one
\* at least CACHE_TTL old, settings (<<>> for None, or <<target_currencies>> of
\* the ChatSettings object of its session), the list the call was handed by
\* get_chat_settings, and how often it has called get_chat_settings
IdleCall ==
  [pc |-> "idle", op |-> "none", chat_id |-> 0, code |-> <<>>, now |-> 0,
   stale |-> FALSE, settings |-> <<>>, loaded |-> <<>>, queries |-> 0]

\* No call has ended yet
NoDalReturn ==
  [op |-> "none", chat_id |-> 0, code |-> <<>>, now |-> 0, stale |-> FALSE,
   cached |-> <<>>, loaded |-> <<>>, queries |-> 0, raised |-> FALSE, value |-> <<>>,
   after |-> <<>>, committed |-> <<>>]

\* The cache entry is missing or at least CACHE_TTL old at time n
Stale(entry, n) == entry = <<>> \/ n - entry[1].timestamp >= SETTINGS_CACHE_TTL

\* The call of task returns value (or raises), having found the entry cached when
\* it began, leaving the cache entry of its chat as after while the table holds
\* committed for the chat
DalReturned(task, cached, value, raised, after, committed) ==
  [op |-> task.op, chat_id |-> task.chat_id, code |-> task.code, now |-> task.now,
   stale |-> task.stale, cached |-> cached, loaded |-> task.loaded,
   queries |-> task.queries, raised |-> raised, value |-> value, after |-> after,
   committed |-> committed]

\* An empty table after init_db, an empty cache
InitDal ==
  /\ chat_settings = [c \in ChatIds |-> <<>>]
  /\ settings_cache = [c \in ChatIds |-> <<>>]
  /\ dal_tasks = [t \in DalCoroutines |-> IdleCall]
  /\ dal_return = NoDalReturn
  /\ dal_calls = 0

\* A cache test that takes an entry of exactly CACHE_TTL for fresh
CacheHitInclusive(entry, n) ==
  entry # <<>> /\ n - entry[1].timestamp <= SETTINGS_CACHE_TTL

\* "chat_id in _settings_cache" and "now - timestamp < CACHE_TTL"
CacheHit(entry, n) == entry # <<>> /\ n - entry[1].timestamp < SETTINGS_CACHE_TTL

\* get_target_currencies up to its first await: a fresh cache entry is returned,
\* otherwise get_chat_settings sends its SELECT
GetTargetCurrencies ==
  \E t \in DalCoroutines, c \in ChatIds :
    /\ dal_tasks[t].pc = "idle"
    /\ dal_calls < MaxDalCalls
    /\ dal_calls' = dal_calls + 1
    /\ \E begun \in {[IdleCall EXCEPT !.op = "get_target_currencies", !.chat_id = c,
                                      !.now = now,
                                      !.stale = Stale(settings_cache[c], now)]} :
         IF CacheHit(settings_cache[c], now)
           THEN /\ dal_return' = DalReturned(begun, settings_cache[c],
                                             settings_cache[c][1].data, FALSE,
                                             settings_cache[c], chat_settings[c])
                /\ UNCHANGED dal_tasks
           ELSE /\ dal_tasks' = [dal_tasks EXCEPT ![t] =
                                   [begun EXCEPT !.pc = "execute", !.queries = 1]]
                /\ UNCHANGED dal_return
    /\ UNCHANGED <<recognizer_vars, clock_vars, rates_vars, chat_settings,
                   settings_cache>>

\* toggle_currency up to its first await: get_chat_settings sends its SELECT
ToggleCurrency ==
  \E t \in DalCoroutines, c \in ChatIds, code \in ToggleCodes :
    /\ dal_tasks[t].pc = "idle"
    /\ dal_calls < MaxDalCalls
    /\ dal_calls' = dal_calls + 1
    /\ dal_tasks' = [dal_tasks EXCEPT ![t] =
                       [IdleCall EXCEPT !.pc = "execute", !.op = "toggle_currency",
                                        !.chat_id = c, !.code = code,
                                        !.stale = Stale(settings_cache[c], now),
                                        !.queries = 1]]
    /\ UNCHANGED <<recognizer_vars, clock_vars, rates_vars, chat_settings,
                   settings_cache, dal_return>>

\* The database runs a SELECT of the row of the chat: session.execute(stmt) of
\* get_chat_settings, or session.refresh(settings)
Select(t, sent, done) ==
  /\ dal_tasks[t].pc = sent
  /\ dal_tasks' = [dal_tasks EXCEPT
                     ![t].pc = done,
                     ![t].settings = chat_settings[dal_tasks[t].chat_id]]
  /\ UNCHANGED <<recognizer_vars, clock_vars, rates_vars, chat_settings,
                 settings_cache, dal_return, dal_calls>>

\* "await session.execute(stmt)" of get_chat_settings.  A session that has
\* already loaded the row (the session of on_toggle_currency, at the
\* get_chat_settings of toggle_currency) gets the object of its identity map
\* back, its loaded target_currencies not overwritten by the row just read
Execute ==
  \E t \in DalCoroutines :
    /\ dal_tasks[t].pc = "execute"
    /\ IF dal_tasks[t].settings = <<>>
         THEN Select(t, "execute", "executed")
         ELSE /\ dal_tasks' = [dal_tasks EXCEPT ![t].pc = "executed"]
              /\ UNCHANGED <<recognizer_vars, clock_vars, rates_vars, chat_settings,
                             settings_cache, dal_return, dal_calls>>

\* get_chat_settings after "await session.execute(stmt)": without a row it makes
\* the default settings and sends the INSERT; with one it returns it to its
\* caller, which runs to its next await: get_target_currencies stores the tuple
\* with the now it read at its start and returns it, toggle_currency toggles the
\* code in its list and sends the UPDATE
ChatSettingsLoaded ==
  \E t \in DalCoroutines :
    /\ dal_tasks[t].pc = "executed"
    /\ \E task \in {dal_tasks[t]} :
         IF task.settings = <<>>
           THEN /\ dal_tasks' = [dal_tasks EXCEPT
                                   ![t].pc = "insert",
                                   ![t].settings = <<DEFAULT_CURRENCIES>>]
                /\ UNCHANGED <<settings_cache, dal_return>>
           ELSE IF task.op = "get_target_currencies"
             THEN /\ settings_cache' =
                       [settings_cache EXCEPT ![task.chat_id] =
                          <<[timestamp |-> task.now, data |-> task.settings[1]]>>]
                  /\ dal_return' =
                       DalReturned([task EXCEPT !.loaded = task.settings], <<>>,
                                   task.settings[1], FALSE,
                                   settings_cache'[task.chat_id],
                                   chat_settings[task.chat_id])
                  /\ dal_tasks' = [dal_tasks EXCEPT ![t] = IdleCall]
             ELSE /\ dal_tasks' = [dal_tasks EXCEPT
                                     ![t].pc = "commit",
                                     ![t].loaded = task.settings,
                                     ![t].settings =
                                        <<Toggled(task.settings[1], task.code)>>]
                  /\ UNCHANGED <<settings_cache, dal_return>>
    /\ UNCHANGED <<recognizer_vars, clock_vars, rates_vars, chat_settings, dal_calls>>

\* The database runs the INSERT of "session.add(settings); await
\* session.commit()": chat_id is unique, so a second row for the chat is refused
CommitNew ==
  \E t \in DalCoroutines :
    /\ dal_tasks[t].pc = "insert"
    /\ IF chat_settings[dal_tasks[t].chat_id] = <<>>
         THEN /\ chat_settings' = [chat_settings EXCEPT ![dal_tasks[t].chat_id] =
                                     dal_tasks[t].settings]
              /\ dal_tasks' = [dal_tasks EXCEPT ![t].pc = "refresh_new"]
         ELSE /\ dal_tasks' = [dal_tasks EXCEPT ![t].pc = "integrity_error"]
              /\ UNCHANGED chat_settings
    /\ UNCHANGED <<recognizer_vars, clock_vars, rates_vars, settings_cache, dal_return,
                   dal_calls>>

\* session.commit() raises IntegrityError in get_chat_settings, and the call ends
IntegrityError ==
  \E t \in DalCoroutines :
    /\ dal_tasks[t].pc = "integrity_error"
    /\ dal_return' = DalReturned(dal_tasks[t], <<>>, <<>>, TRUE,
                                 settings_cache[dal_tasks[t].chat_id],
                                 chat_settings[dal_tasks[t].chat_id])
    /\ dal_tasks' = [dal_tasks EXCEPT ![t] = IdleCall]
    /\ UNCHANGED <<recognizer_vars, clock_vars, rates_vars, chat_settings,
                   settings_cache, dal_calls>>

\* "await session.refresh(settings)" of get_chat_settings
RefreshNew ==
  \E t \in DalCoroutines :
    Select(t, "refresh_new", "executed") /\ dal_tasks[t].pc = "refresh_new"

\* The database runs the UPDATE of "await session.commit()" in toggle_currency:
\* the whole target_currencies column of the row is written
Commit ==
  \E t \in DalCoroutines :
    /\ dal_tasks[t].pc = "commit"
    /\ chat_settings' = [chat_settings EXCEPT ![dal_tasks[t].chat_id] =
                           dal_tasks[t].settings]
    /\ dal_tasks' = [dal_tasks EXCEPT ![t].pc = "refresh"]
    /\ UNCHANGED <<recognizer_vars, clock_vars, rates_vars, settings_cache, dal_return,
                   dal_calls>>

\* "await session.refresh(settings)" of toggle_currency
Refresh ==
  \E t \in DalCoroutines : Select(t, "refresh", "refreshed") /\ dal_tasks[t].pc = "refresh"

\* toggle_currency after the refresh: it stores the tuple with time.time() and
\* returns settings.target_currencies
ToggleReturns ==
  \E t \in DalCoroutines :
    /\ dal_tasks[t].pc = "refreshed"
    /\ settings_cache' =
         [settings_cache EXCEPT ![dal_tasks[t].chat_id] =
            <<[timestamp |-> now, data |-> dal_tasks[t].settings[1]]>>]
    /\ dal_return' = DalReturned(dal_tasks[t], <<>>, dal_tasks[t].settings[1], FALSE,
                                 settings_cache'[dal_tasks[t].chat_id],
                                 chat_settings[dal_tasks[t].chat_id])
    /\ dal_tasks' = [dal_tasks EXCEPT ![t] = IdleCall]
    /\ UNCHANGED <<recognizer_vars, clock_vars, rates_vars, chat_settings, dal_calls>>

\* The currencies of the toggle buttons pressed
CallbackCodes == {USD, EUR}

\* The lists a chat has stored when its settings keyboard is shown
StoredLists == {<<USD>>, <<USD, EUR>>, DEFAULT_CURRENCIES}

\* on_toggle_currency up to its first await: its get_chat_settings sends the
\* SELECT.  The callback comes from the keyboard cmd_settings sent, and
\* cmd_settings has created the row of the chat.
OnToggleCurrency ==
  \E t \in DalCoroutines, c \in ChatIds, code \in CallbackCodes :
    /\ dal_tasks[t].pc = "idle"
    /\ chat_settings[c] # <<>>
    /\ dal_calls < MaxDalCalls
    /\ dal_calls' = dal_calls + 1
    /\ dal_tasks' = [dal_tasks EXCEPT ![t] =
                       [IdleCall EXCEPT !.pc = "check", !.op = "on_toggle_currency",
                                        !.chat_id = c, !.code = code,
                                        !.stale = Stale(settings_cache[c], now),
                                        !.queries = 1]]
    /\ UNCHANGED <<recognizer_vars, clock_vars, rates_vars, chat_settings,
                   settings_cache, dal_return>>

\* The database runs the SELECT of the handler's get_chat_settings
CheckExecute ==
  \E t \in DalCoroutines : Select(t, "check", "checked") /\ dal_tasks[t].pc = "check"

\* An on_toggle_currency without the test for the last currency
CheckLoadedAlwaysToggling ==
  \E t \in DalCoroutines :
    /\ dal_tasks[t].pc = "checked"
    /\ dal_tasks[t].settings # <<>>
    /\ dal_tasks' = [dal_tasks EXCEPT ![t].pc = "execute",
                                      ![t].op = "toggle_currency",
                                      ![t].queries = 2]
    /\ UNCHANGED <<recognizer_vars, clock_vars, rates_vars, chat_settings,
                   settings_cache, dal_return, dal_calls>>

\* on_toggle_currency with the settings of its chat: the last currency is
\* refused with an alert and the handler returns; otherwise toggle_currency is
\* called with the same session, and its get_chat_settings sends its SELECT.
\* What follows toggle_currency (edit_reply_markup, answer) stores nothing.
CheckLoaded ==
  \E t \in DalCoroutines :
    /\ dal_tasks[t].pc = "checked"
    /\ dal_tasks[t].settings # <<>>
    /\ \E task \in {dal_tasks[t]} :
         IF task.code \in Range(task.settings[1]) /\ Len(task.settings[1]) = 1
           THEN /\ dal_return' = DalReturned([task EXCEPT !.loaded = task.settings],
                                             <<>>, <<>>, FALSE,
                                             settings_cache[task.chat_id],
                                             chat_settings[task.chat_id])
                /\ dal_tasks' = [dal_tasks EXCEPT ![t] = IdleCall]
           ELSE /\ dal_tasks' = [dal_tasks EXCEPT ![t].pc = "execute",
                                                  ![t].op = "toggle_currency",
                                                  ![t].queries = 2]
                /\ UNCHANGED dal_return
    /\ UNCHANGED <<recognizer_vars, clock_vars, rates_vars, chat_settings,
                   settings_cache, dal_calls>>

\* Callbacks of the toggle buttons, one after another and at once
NextHandler ==
  \/ OnToggleCurrency
  \/ CheckExecute
  \/ CheckLoaded
  \/ Execute
  \/ ChatSettingsLoaded
  \/ Commit
  \/ Refresh
  \/ ToggleReturns

NextDal ==
  \/ GetTargetCurrencies
  \/ ToggleCurrency
  \/ Execute
  \/ ChatSettingsLoaded
  \/ CommitNew
  \/ IntegrityError
  \/ RefreshNew
  \/ Commit
  \/ Refresh
  \/ ToggleReturns
  \/ Tick

-----------------------------------------------------------------------------
(* The state machine                                                       *)

InitRecognizer ==
  /\ text = <<>>
  /\ strict_mode = FALSE
  /\ text_cleaned = <<>>
  /\ pc = "idle"
  /\ pos = 1
  /\ results = <<>>
  /\ trace = <<>>
  /\ amount_str = <<>>
  /\ amount_out = ValueError
  /\ calls = 0
  /\ first_call = [text |-> <<>>, strict_mode |-> FALSE, results |-> <<>>]

\* The state after import: nothing parsed, RatesService() just constructed
Init ==
  /\ InitRecognizer
  /\ InitClock
  /\ InitRates
  /\ InitDal

\* The words the removed stop-word step took out: units that look like currency
\* abbreviations
NoiseTokenSet == {<<"g", "b">>}

\* s from i on, every whole-word occurrence of a noise token replaced by a space
RECURSIVE RemoveNoiseFrom(_, _)
RemoveNoiseFrom(s, i) ==
  IF i > Len(s) THEN <<>>
  ELSE IF \E tok \in NoiseTokenSet :
            /\ i + Len(tok) <= Len(s) + 1
            /\ Slice(s, i, i + Len(tok)) = tok
            /\ WordBoundary(s, i)
            /\ WordBoundary(s, i + Len(tok))
    THEN <<" ">> \o RemoveNoiseFrom(s, i + Len(CHOOSE tok \in NoiseTokenSet :
                                                    Slice(s, i, i + Len(tok)) = tok))
    ELSE <<s[i]>> \o RemoveNoiseFrom(s, i + 1)

\* A parse with the stop-word step: the matcher runs on the text without its
\* noise tokens
ParseRemovingNoise(t, sm) ==
  /\ text' = t
  /\ strict_mode' = sm
  /\ text_cleaned' = RemoveNoiseFrom(Lower(t), 1)
  /\ results' = <<>>
  /\ trace' = <<>>
  /\ pos' = 1
  /\ pc' = IF HasDigits(t) THEN "scan" ELSE "fast"
  /\ UNCHANGED <<amount_str, amount_out>>

\* A parse that appends to a list kept from call to call (results as a class
\* attribute or a mutable default) in place of "results = []"
ParseKeepingResults(t, sm) ==
  /\ text' = t
  /\ strict_mode' = sm
  /\ text_cleaned' = Lower(t)
  /\ trace' = <<>>
  /\ pos' = 1
  /\ pc' = IF HasDigits(t) THEN "scan" ELSE "fast"
  /\ UNCHANGED <<results, amount_str, amount_out>>

\* parse(t, sm), up to the choice of the path
Parse(t, sm) ==
  /\ text' = t
  /\ strict_mode' = sm
  /\ text_cleaned' = Lower(t)
  /\ results' = <<>>
  /\ trace' = <<>>
  /\ pos' = 1
  /\ pc' = IF HasDigits(t) THEN "scan" ELSE "fast"
  /\ UNCHANGED <<amount_str, amount_out>>

\* recognize(text, strict_mode).  The class keeps nothing from one call to the
\* next, so every call starts from the state after import.
Recognize ==
  /\ pc = "idle"
  /\ \E t \in Texts, sm \in BOOLEAN : Parse(t, sm)
  /\ UNCHANGED <<call_vars, outside_recognizer>>

\* One iteration of the loop over STANDALONE_SLANG_PATTERN.finditer
FastPathNext ==
  /\ pc = "fast"
  /\ \E m \in {SearchSlang(text_cleaned, pos)} :
         /\ m # NoMatch
         /\ results' = results \o FastPathPrices(m)
         /\ trace' = Append(trace, [match |-> m, prices |-> FastPathPrices(m)])
         /\ pos' = NextSearchStart(m)
  /\ UNCHANGED <<text, strict_mode, text_cleaned, pc, amount_str, amount_out, call_vars,
                 outside_recognizer>>

\* finditer is exhausted: return results
FastPathReturn ==
  /\ pc = "fast"
  /\ SearchSlang(text_cleaned, pos) = NoMatch
  /\ pc' = "done"
  /\ UNCHANGED <<text, strict_mode, text_cleaned, pos, results, trace, amount_str, amount_out,
                 call_vars, outside_recognizer>>

\* One iteration of the loop over COMBINED_PATTERN.finditer
ScanNext ==
  /\ pc = "scan"
  /\ \E m \in {SearchCombined(text_cleaned, pos)} :
         /\ m # NoMatch
         /\ IF Raises(m)
              THEN /\ pc' = "raised"
                   /\ UNCHANGED <<results, trace, pos>>
              ELSE /\ results' = results \o ScanPrices(m, strict_mode)
                   /\ trace' = Append(trace, [match |-> m, prices |-> ScanPrices(m, strict_mode)])
                   /\ pos' = NextSearchStart(m)
                   /\ pc' = pc
  /\ UNCHANGED <<text, strict_mode, text_cleaned, amount_str, amount_out, call_vars,
                 outside_recognizer>>

ScanReturn ==
  /\ pc = "scan"
  /\ SearchCombined(text_cleaned, pos) = NoMatch
  /\ pc' = "done"
  /\ UNCHANGED <<text, strict_mode, text_cleaned, pos, results, trace, amount_str, amount_out,
                 call_vars, outside_recognizer>>

Next ==
  \/ Recognize
  \/ FastPathNext
  \/ FastPathReturn
  \/ ScanNext
  \/ ScanReturn

Spec == Init /\ [][Next]_vars

\* recognize called again and again: a call starts when none is running; the
\* first call's arguments and result are kept to compare later calls with.
RecognizeAgain ==
  /\ pc \in {"idle", "done"}
  /\ calls < MaxCalls
  /\ calls' = calls + 1
  /\ first_call' = IF calls = 1
                     THEN [text |-> text, strict_mode |-> strict_mode, results |-> results]
                     ELSE first_call
  /\ \E t \in CallTexts, sm \in BOOLEAN : Parse(t, sm)
  /\ UNCHANGED outside_recognizer

NextCalls ==
  \/ RecognizeAgain
  \/ FastPathNext
  \/ FastPathReturn
  \/ ScanNext
  \/ ScanReturn

SpecCalls == Init /\ [][NextCalls]_vars

\* recognize on a text with two separators
RecognizeGroups ==
  /\ pc = "idle"
  /\ \E t \in GroupTexts, sm \in BOOLEAN : Parse(t, sm)
  /\ UNCHANGED <<call_vars, outside_recognizer>>

NextGroups ==
  \/ RecognizeGroups
  \/ ScanNext
  \/ ScanReturn

SpecGroups == Init /\ [][NextGroups]_vars

\* A direct call of the classmethod: CurrencyRecognizer._normalize_amount(str)
NormalizeAmount ==
  /\ pc = "idle"
  /\ \E str \in Literals :
       /\ amount_str' = str
       /\ amount_out' = normalize_amount(str)
  /\ pc' = "normalized"
  /\ UNCHANGED <<text, strict_mode, text_cleaned, pos, results, trace, call_vars,
                 outside_recognizer>>

NextNorm == NormalizeAmount

SpecNorm == Init /\ [][NextNorm]_vars

SpecRates == Init /\ [][NextRates]_vars

\* The service with a table and a fresh last_updated assigned from outside
InitPreset ==
  /\ InitRecognizer
  /\ InitClock
  /\ \E table \in PresetTables : InitService(table, StartTime)
  /\ tasks = [t \in Coroutines |-> IdleTask]
  /\ last_failure = 0 - 1
  /\ last_return = NoReturn
  /\ InitDal

SpecDal == Init /\ [][NextDal]_vars

\* The row of the chat exists, with one of the stored lists
InitHandler ==
  /\ InitRecognizer
  /\ InitClock
  /\ InitRates
  /\ chat_settings \in [ChatIds -> {<<list>> : list \in StoredLists}]
  /\ settings_cache = [c \in ChatIds |-> <<>>]
  /\ dal_tasks = [t \in DalCoroutines |-> IdleCall]
  /\ dal_return = NoDalReturn
  /\ dal_calls = 0

SpecHandler == InitHandler /\ [][NextHandler]_vars

\* convert called on a service in any state the calls before it may have left
NextConvert ==
  \/ Convert
  \/ AcquireLock
  \/ FetchFails
  \/ FetchSucceeds

SpecConvert == InitPreset /\ [][NextConvert]_vars

-----------------------------------------------------------------------------
(* The grammar with the currency-token slot restricted to SYMBOLS          *)

\* The currency-token slot when only the glyphs of SYMBOLS stand in it
SymbolEnds(s, i) == IF i <= Len(s) /\ <<s[i]>> \in SYMBOLS THEN <<i + 1>> ELSE <<>>

\* Production A with that slot: PATTERN_START with SymbolEnds for the token
RECURSIVE SymbolFromSpaces2(_, _, _, _, _, _)
SymbolFromSpaces2(s, i, ne, w1, me, w2s) ==
  IF w2s = <<>> THEN NoMatch
  ELSE FirstMatch(StartAtCurrency(s, i, ne, w1, me, Head(w2s), SymbolEnds(s, Head(w2s))),
                  SymbolFromSpaces2(s, i, ne, w1, me, Tail(w2s)))

RECURSIVE SymbolFromMultiplier(_, _, _, _, _)
SymbolFromMultiplier(s, i, ne, w1, mes) ==
  IF mes = <<>> THEN NoMatch
  ELSE FirstMatch(SymbolFromSpaces2(s, i, ne, w1, Head(mes), SpacesEnds(s, Head(mes))),
                  SymbolFromMultiplier(s, i, ne, w1, Tail(mes)))

RECURSIVE SymbolFromSpaces1(_, _, _, _)
SymbolFromSpaces1(s, i, ne, w1s) ==
  IF w1s = <<>> THEN NoMatch
  ELSE FirstMatch(SymbolFromMultiplier(s, i, ne, Head(w1s),
                                       OptionalMultiplierEnds(s, Head(w1s))),
                  SymbolFromSpaces1(s, i, ne, Tail(w1s)))

RECURSIVE SymbolFromNumber(_, _, _)
SymbolFromNumber(s, i, nes) ==
  IF nes = <<>> THEN NoMatch
  ELSE FirstMatch(SymbolFromSpaces1(s, i, Head(nes), SpacesEnds(s, Head(nes))),
                  SymbolFromNumber(s, i, Tail(nes)))

\* Productions A and B with that slot, at i, in the order of COMBINED_PATTERN
SymbolPattern(s, i) ==
  FirstMatch(SymbolFromNumber(s, i, NumberEnds(s, i)),
             EndFromCurrency(s, i, SymbolEnds(s, i)))

\* The leftmost match of the restricted grammar at or after i
RECURSIVE SearchSymbols(_, _)
SearchSymbols(s, i) ==
  IF i > Len(s) THEN NoMatch
  ELSE FirstMatch(SymbolPattern(s, i), SearchSymbols(s, i + 1))

\* The prices of the left-to-right scan over the restricted grammar, from match m
RECURSIVE SymbolScan(_, _)
SymbolScan(s, m) ==
  IF m = NoMatch THEN <<>>
  ELSE ScanPrices(m, TRUE) \o SymbolScan(s, SearchSymbols(s, NextSearchStart(m)))

(* C20: in strict mode recognize returns what the same left-to-right scan      *)
(* returns over the grammar whose currency-token slot holds only the glyphs    *)
(* of SYMBOLS.  The code scans with the full grammar and drops the matches      *)
(* whose token is a word, together with the number they have consumed: in      *)
(* "usd1$" the match "usd1" is dropped and "1$" is never seen.                  *)
C20_StrictIsRestrictedGrammar ==
  (pc = "done" /\ strict_mode) =>
    results = SymbolScan(text_cleaned, SearchSymbols(text_cleaned, 1))

-----------------------------------------------------------------------------
(* Properties of RatesService                                              *)

(* C16: once _consecutive_failures has reached MAX_CONSECUTIVE_FAILURES, a     *)
(* get_rates call made sooner than min(3600, 60 * 2^(failures - 3)) seconds    *)
(* after the preceding failed fetch returns without having called             *)
(* _fetch_rates.  The code measures the interval from last_updated, the time   *)
(* of the last fetch that succeeded, so the statement does not hold.          *)
C16_BackoffSkipsFetch ==
  (last_return.op = "get_rates" /\ last_return.backoff_due) => ~last_return.fetched

\* The table has a rate for the currency: it holds the code, or the code is USD
HasRate(table, code) == code \in Keys(table) \/ code = USD

\* That rate
RateOf(table, code) == IF code \in Keys(table) THEN Entry(table, code)[2] ELSE 1

\* A returned convert call gave value for amount, from and to (upper case) on table
ConvertContract(table, amount, from, to, value) ==
  IF \/ table = {}
     \/ ~HasRate(table, from)
     \/ ~HasRate(table, to)
     \/ RateOf(table, from) = 0
    THEN value.num = 0
    ELSE /\ value.num * RateOf(table, from) = amount * RateOf(table, to) * value.den
         /\ value.den > 0
         /\ from = to => (value.num = amount /\ value.den = 1)

(* C17: convert returns 0.0 when get_rates gave no rates, when the source or   *)
(* the target currency is absent from the table (USD counts as present, with   *)
(* rate 1.0), or when the source rate is 0; otherwise it returns               *)
(* amount * rate_to / rate_from, which is amount for a currency converted to   *)
(* itself.                                                                     *)
C17_ConvertContract ==
  last_return.op = "convert" =>
    ConvertContract(last_return.rates, last_return.args.amount,
                    Upper(last_return.args.from_curr), Upper(last_return.args.to_curr),
                    last_return.value)

\* convert(3, "USD", "eur") on {USD: 1, EUR: 2} gives 6.0
C17_Witness ==
  /\ last_return.op = "convert"
  /\ last_return.args = [amount |-> 3, from_curr |-> USD, to_curr |-> Lower(EUR)]
  /\ last_return.rates = {<<USD, 1>>, <<EUR, 2>>}
  /\ last_return.value = [num |-> 6, den |-> 1]

-----------------------------------------------------------------------------
(* Properties of the settings cache                                        *)

C18_WitnessHit ==
  /\ dal_return.op = "get_target_currencies"
  /\ ~dal_return.stale
  /\ dal_return.queries = 0
  /\ dal_return.value = DEFAULT_CURRENCIES

(* C19: when toggle_currency(chat_id, code) returns, the cache entry of the     *)
(* chat holds the committed target_currencies of the chat, and code is in it   *)
(* if and only if it was not in the list the call loaded.  Two calls that       *)
(* interleave at their awaits break it.                                        *)
C19_ToggleUpdatesCache ==
  (dal_return.op = "toggle_currency" /\ ~dal_return.raised) =>
    /\ dal_return.after # <<>>
    /\ dal_return.after[1].data = dal_return.committed[1]
    /\ dal_return.code \in Range(dal_return.loaded[1])
         <=> dal_return.code \notin Range(dal_return.after[1].data)

-----------------------------------------------------------------------------
(* Properties                                                              *)

One == [m |-> 1, e |-> 0]
Million == [m |-> 1, e |-> 6]

Lyam == <<"cy_l", "cy_ya", "cy_m">>

\* The prices of the matches yielded so far, in the order yielded
RECURSIVE PricesOf(_)
PricesOf(tr) == IF tr = <<>> THEN <<>> ELSE Head(tr).prices \o PricesOf(Tail(tr))

\* The matches of kind k yielded so far
EntriesOf(kinds) == {i \in DOMAIN trace : trace[i].match.kind \in kinds}

(* C1: the spans of the matches are pairwise disjoint and in increasing order,  *)
(* results holds their prices in that order; "1USD1" gives one price, the       *)
(* currency token is not used again for the second number, and "1<lyam>1$"      *)
(* gives a million RUB and then 1 USD.                                          *)
C1_SpansDisjointInOrder ==
  /\ \A i \in DOMAIN trace :
       /\ 1 <= trace[i].match.start
       /\ trace[i].match.start < trace[i].match.end
       /\ trace[i].match.end <= Len(text_cleaned) + 1
  /\ \A i, j \in DOMAIN trace : i < j => trace[i].match.end <= trace[j].match.start
  /\ results = PricesOf(trace)
  /\ pc = "done" /\ ~strict_mode /\ text = <<"1">> \o USD \o <<"1">>
       => results = <<Price(One, USD)>>
  /\ pc = "done" /\ ~strict_mode /\ text = <<"1">> \o Lyam \o <<"1", "$">>
       => results = <<Price(Million, RUB), Price(One, USD)>>

C1_Witness ==
  /\ pc = "done"
  /\ text = <<"1">> \o Lyam \o <<"1", "$">>
  /\ Len(trace) = 2
  /\ trace[1].prices # <<>> /\ trace[2].prices # <<>>

\* s is a number, optional whitespace and then letters to the end
NumberThenLetters(s) ==
  /\ NumberEnds(s, 1) # <<>>
  /\ LET w == SpaceRunEnd(s, Head(NumberEnds(s, 1)))
     IN  w <= Len(s) /\ \A i \in w..Len(s) : IsLetter(s[i])

\* The letters that end such a text
TokenAfterNumber(s) == Slice(s, SpaceRunEnd(s, Head(NumberEnds(s, 1))), Len(s) + 1)

(* C2: whitelist enforcement.  A text that is a number followed by an           *)
(* alphabetic token that is no key of SLANG_MAP, IMPLIED_RUBLE_TOKENS or        *)
(* SLANG_AMOUNT_CURRENCY gives no price.                                        *)
C2_NoPriceFromUnknownToken ==
  (/\ pc = "done"
   /\ NumberThenLetters(text_cleaned)
   /\ TokenAfterNumber(text_cleaned) \notin CURRENCY_TOKENS \cup SLANG_TOKENS)
    => results = <<>>

(* C3: every price in results has a currency of VALID_CURRENCIES, and so has    *)
(* every value of SLANG_MAP, the implied RUB and every SLANG_AMOUNT_CURRENCY    *)
(* entry.                                                                       *)
C3_CurrenciesValid ==
  /\ \A i \in DOMAIN results : results[i].currency \in VALID_CURRENCIES
  /\ \A p \in SLANG_MAP : p[2] \in VALID_CURRENCIES
  /\ \A p \in SLANG_AMOUNT_CURRENCY : p[3] \in VALID_CURRENCIES
  /\ RUB \in VALID_CURRENCIES

C3_Witness ==
  /\ pc = "done"
  /\ \E i, j \in DOMAIN trace :
       /\ trace[i].match.kind = "slang" /\ trace[i].prices # <<>>
       /\ trace[j].match.kind \in {"start", "end"} /\ trace[j].prices # <<>>
       /\ results[1].currency # results[2].currency

(* C4: in strict mode no price comes from a standalone slang token, whether     *)
(* or not the text has digits.                                                  *)
C4_StrictNoStandaloneSlang ==
  strict_mode => \A i \in EntriesOf({"slang"}) : trace[i].prices = <<>>

(* C5: in strict mode a match of groups 1-3 or 4-6 gives a price only if its    *)
(* currency token is in SYMBOLS, and then the price it gives in loose mode;     *)
(* "1 USD" gives nothing and "$1" gives 1 USD.                                  *)
C5_StrictOnlySymbols ==
  /\ strict_mode =>
       \A i \in EntriesOf({"start", "end"}) :
         /\ trace[i].match.currency \notin SYMBOLS => trace[i].prices = <<>>
         /\ trace[i].match.currency \in SYMBOLS =>
              /\ Len(trace[i].prices) = 1
              /\ trace[i].prices = ScanPrices(trace[i].match, FALSE)
  /\ pc = "done" /\ strict_mode /\ text = <<"1", " ">> \o USD => results = <<>>
  /\ pc = "done" /\ text = <<"$", "1">> => results = <<Price(One, USD)>>

C5_Witness ==
  /\ pc = "done"
  /\ strict_mode
  /\ \E i, j \in EntriesOf({"start"}) :
       /\ trace[i].match.currency \notin SYMBOLS /\ trace[i].prices = <<>>
       /\ trace[j].match.currency \in SYMBOLS /\ trace[j].prices # <<>>

\* The factor of a captured multiplier, 1 when none was captured
FactorOf(token) ==
  IF token = <<>> THEN One ELSE PowerOfTen(Entry(MULTIPLIER_MAP, token)[2])

(* C6: in loose mode a match <n><multiplier m><implied-currency token f> gives  *)
(* exactly one price, n*m*f RUB, and n*f RUB without a multiplier: "1 <lyam>"   *)
(* is a million RUB and "1k <lyam>" is 10^9 RUB.                                *)
C6_MultiplierComposition ==
  /\ ~strict_mode =>
       \A i \in EntriesOf({"start"}) :
         trace[i].match.currency \in IMPLIED_RUBLE_TOKENS =>
           trace[i].prices =
             <<Price(Times(Times(normalize_amount(trace[i].match.amount),
                                 FactorOf(trace[i].match.multiplier)),
                           FactorOf(trace[i].match.currency)),
                     RUB)>>
  /\ pc = "done" /\ ~strict_mode /\ text = <<"1", " ">> \o Lyam
       => results = <<Price(Million, RUB)>>
  /\ pc = "done" /\ ~strict_mode /\ text = <<"1", "k", " ">> \o Lyam
       => results = <<Price([m |-> 1, e |-> 9], RUB)>>

C6_Witness ==
  /\ pc = "done"
  /\ text = <<"1", "k", " ">> \o Lyam
  /\ trace[1].match.multiplier = <<"k">>
  /\ trace[1].match.currency = Lyam
  /\ results = <<Price([m |-> 1, e |-> 9], RUB)>>

\* The slang token tok stands in s from w and no word character follows it
SlangEndsWordAt(s, w, tok) ==
  /\ w + Len(tok) <= Len(s) + 1
  /\ Slice(s, w, w + Len(tok)) = tok
  /\ ~(w + Len(tok) <= Len(s) /\ IsWordChar(s[w + Len(tok)]))

\* ... and no word character precedes it either
SlangWholeWordAt(s, w, tok) ==
  /\ SlangEndsWordAt(s, w, tok)
  /\ ~(w - 1 >= 1 /\ IsWordChar(s[w - 1]))

RECURSIVE BackOverSpaces(_, _)
BackOverSpaces(s, j) == IF j >= 1 /\ IsSpace(s[j]) THEN BackOverSpaces(s, j - 1) ELSE j

\* The character before position w, whitespace skipped, is a digit
PrecededByDigit(s, w) ==
  LET b == BackOverSpaces(s, w - 1) IN b >= 1 /\ IsDigit(s[b])

\* Entry i of the trace is a standalone-slang match of tok at w that gave its price
StandalonePriceAt(i, w, tok) ==
  /\ trace[i].match.kind = "slang"
  /\ trace[i].match.word = tok
  /\ trace[i].match.end = w + Len(tok)
  /\ trace[i].prices = <<SlangPrice(tok)>>

(* C7: in loose mode every whole-word occurrence of a standalone     *)
(* slang token that no digit immediately precedes (whitespace or not) gives     *)
(* its fixed price, whether or not a number follows in the text.                *)
C7_EveryStandaloneOccurrencePriced ==
  (pc = "done" /\ ~strict_mode) =>
    \A tok \in SLANG_TOKENS, w \in DOMAIN text_cleaned :
      (SlangWholeWordAt(text_cleaned, w, tok) /\ ~PrecededByDigit(text_cleaned, w))
        => \E i \in DOMAIN trace : StandalonePriceAt(i, w, tok)

(* C8 as claimed: a standalone slang token immediately preceded by a digit      *)
(* (whitespace or not) never gives a standalone price; it is the currency token *)
(* of a number-first match or the multiplier of a currency-first match, and     *)
(* that match gives exactly one price.                                          *)
C8_DigitPrecededSlangOnePrice ==
  /\ \A i \in EntriesOf({"slang"}) :
       ~PrecededByDigit(text_cleaned, trace[i].match.end - Len(trace[i].match.word))
  /\ pc = "done" =>
       \A tok \in SLANG_TOKENS, w \in DOMAIN text_cleaned :
         (SlangEndsWordAt(text_cleaned, w, tok) /\ PrecededByDigit(text_cleaned, w))
           => \E i \in EntriesOf({"start", "end"}) :
                /\ trace[i].match.end = w + Len(tok)
                /\ \/ trace[i].match.kind = "start" /\ trace[i].match.currency = tok
                   \/ trace[i].match.kind = "end" /\ trace[i].match.multiplier = tok
                /\ Len(trace[i].prices) = 1

(* C8 as amended: such a token never gives a standalone price; it lies inside   *)
(* the match that holds the digit, as the currency token or the multiplier of   *)
(* a number-first match or the multiplier of a currency-first match, and that   *)
(* match gives at most one price: a number-first match gives exactly one in     *)
(* loose mode, and in strict mode a match gives one exactly when its currency   *)
(* token is in SYMBOLS.                                                         *)
C8_DigitPrecededSlangConsumed ==
  /\ \A i \in EntriesOf({"slang"}) :
       ~PrecededByDigit(text_cleaned, trace[i].match.end - Len(trace[i].match.word))
  /\ pc = "done" =>
       \A tok \in SLANG_TOKENS, w \in DOMAIN text_cleaned :
         (SlangEndsWordAt(text_cleaned, w, tok) /\ PrecededByDigit(text_cleaned, w))
           => \E i \in EntriesOf({"start", "end"}) :
                /\ trace[i].match.start < w
                /\ w + Len(tok) <= trace[i].match.end
                /\ \/ /\ trace[i].match.kind = "start"
                      /\ trace[i].match.currency = tok
                      /\ trace[i].match.end = w + Len(tok)
                   \/ /\ trace[i].match.kind = "start"
                      /\ trace[i].match.multiplier = tok
                      /\ w + Len(tok) <= trace[i].match.end - Len(trace[i].match.currency)
                   \/ /\ trace[i].match.kind = "end"
                      /\ trace[i].match.multiplier = tok
                      /\ trace[i].match.end = w + Len(tok)
                /\ Len(trace[i].prices) <= 1
                /\ strict_mode =>
                     (Len(trace[i].prices) = 1 <=> trace[i].match.currency \in SYMBOLS)
                /\ (~strict_mode /\ trace[i].match.kind = "start") =>
                     Len(trace[i].prices) = 1

C8_Witness ==
  /\ pc = "done"
  /\ ~strict_mode
  /\ text = <<"$", "1", " ">> \o Lyam
  /\ Len(trace) = 1
  /\ trace[1].match.kind = "end"
  /\ trace[1].match.multiplier = Lyam
  /\ results = <<Price(Million, USD)>>

\* The whole literal is one match of \d+(?:[.,]\d+)?
CapturedLiteral(str) ==
  /\ str # <<>>
  /\ NumberEnds(str, 1) # <<>>
  /\ Head(NumberEnds(str, 1)) = Len(str) + 1

\* The value of a captured literal, read off its integer part, its separator
\* and its fraction digits
SeparatorValue(str) ==
  LET seps == {k \in DOMAIN str : str[k] \in {".", ","}}
  IN  IF seps = {} THEN Canon(IntOf(str), 0)
      ELSE LET k == CHOOSE x \in seps : TRUE
               whole == SubSeq(str, 1, k - 1)
               frac == SubSeq(str, k + 1, Len(str))
           IN  IF str[k] = "," /\ Len(frac) = 3
                 THEN Canon(IntOf(whole \o frac), 0)
                 ELSE Canon(IntOf(whole \o frac), 0 - Len(frac))

(* C9: for every literal digits, digits.digits or digits,digits that the number *)
(* pattern captures, _normalize_amount reads '.' as a decimal point, removes a  *)
(* ',' followed by exactly 3 digits as a thousands separator, and reads a ','   *)
(* followed by 1, 2 or 4 and more digits as a decimal point.                    *)
C9_SeparatorDisambiguation ==
  (pc = "normalized" /\ CapturedLiteral(amount_str)) =>
    /\ amount_out = SeparatorValue(amount_str)
    /\ amount_str = <<"1", ",", "0", "0", "0">> => amount_out = [m |-> 1, e |-> 3]
    /\ amount_str = <<"0", ",", "1", "1", "5">> => amount_out = [m |-> 115, e |-> 0]
    /\ amount_str = <<"1", ",", "5">> => amount_out = [m |-> 15, e |-> -1]
    /\ amount_str = <<"1", ",", "5", "0", "1", "5">> => amount_out = [m |-> 15015, e |-> -4]
    /\ amount_str = <<"1", ".", "5", "0", "5">> => amount_out = [m |-> 1505, e |-> -3]

C9_Witness ==
  /\ pc = "normalized"
  /\ amount_str = <<"1", "5", ",", "0", "0", "0">>
  /\ CapturedLiteral(amount_str)
  /\ amount_out = [m |-> 15, e |-> 3]

RECURSIVE ThousandsGroupsEnd(_, _)
\* The position after the groups " ddd" that start at j (j itself if none does)
ThousandsGroupsEnd(s, j) ==
  IF /\ j + 3 <= Len(s)
     /\ s[j] = " "
     /\ DigitRunEnd(s, j + 1) = j + 4
    THEN ThousandsGroupsEnd(s, j + 4)
    ELSE j

\* s is 1 to 3 digits, one or more groups of a space and exactly 3 digits,
\* optional whitespace and a currency token of SLANG_MAP
SpaceGroupedAmount(s) ==
  /\ s # <<>>
  /\ LET d == DigitRunEnd(s, 1)
         g == ThousandsGroupsEnd(s, d)
         w == SpaceRunEnd(s, g)
     IN  /\ d - 1 \in 1..3
         /\ g > d
         /\ Slice(s, w, Len(s) + 1) \in SLANG_MAP_KEYS

(* C10: for 1 to 3 digits followed by one or more space-separated groups of     *)
(* exactly 3 digits and a currency token, recognize returns exactly one price,  *)
(* whose amount is the number with the interior spaces removed.                 *)
C10_SpaceGroupedThousands ==
  (pc = "done" /\ ~strict_mode /\ SpaceGroupedAmount(text_cleaned)) =>
    LET g == ThousandsGroupsEnd(text_cleaned, DigitRunEnd(text_cleaned, 1))
        w == SpaceRunEnd(text_cleaned, g)
        token == Slice(text_cleaned, w, Len(text_cleaned) + 1)
    IN  results = <<Price(Canon(IntOf(SelectSeq(Slice(text_cleaned, 1, g), IsDigit)), 0),
                          Entry(SLANG_MAP, token)[2])>>

\* The fixed prices of SLANG_AMOUNT_CURRENCY
SlangPriceSet == {SlangPrice(w) : w \in SLANG_TOKENS}

(* C11: for a text without a digit every price returned is the fixed price of   *)
(* a standalone slang match; the number-first and currency-first alternatives   *)
(* match nowhere in it and give no price.                                       *)
C11_NoDigitOnlyStandalone ==
  ~HasDigits(text) =>
    /\ \A i \in DOMAIN trace :
         /\ trace[i].match.kind = "slang"
         /\ \A k \in DOMAIN trace[i].prices : trace[i].prices[k] \in SlangPriceSet
    /\ results = PricesOf(trace)
    /\ pc = "fast" => SearchCombined(text_cleaned, pos) = SearchSlang(text_cleaned, pos)

C11_Witness ==
  /\ pc = "done"
  /\ ~HasDigits(text)
  /\ text = <<"$">> \o Lyam \o <<" ">> \o USD
  /\ results = <<Price(Million, RUB)>>

\* The tokens of dict that s continues with from p
TokensAt(dict, s, p) ==
  {t \in dict : p + Len(t) <= Len(s) + 1 /\ Slice(s, p, p + Len(t)) = t}

\* tok is the longest token of dict that s continues with from p
LongestTokenAt(dict, s, p, tok) ==
  /\ tok \in TokensAt(dict, s, p)
  /\ \A t \in TokensAt(dict, s, p) : Len(t) <= Len(tok)

\* Where group 2 of a number-first match starts: after the number and all the
\* whitespace that follows it
StartMultiplierAt(m) == SpaceRunEnd(text_cleaned, m.start + Len(m.amount))

(* C12: the token a match captures in its currency slot, its multiplier slot or *)
(* its standalone-slang slot is the longest token of that slot's dictionary     *)
(* that the text continues with from the position where the slot starts.        *)
C12_LongestMatch ==
  \A i \in DOMAIN trace :
    LET m == trace[i].match
    IN  /\ m.kind = "start" =>
             /\ LongestTokenAt(CURRENCY_TOKENS, text_cleaned, m.end - Len(m.currency),
                               m.currency)
             /\ m.multiplier # <<>> =>
                  LongestTokenAt(MULTIPLIER_MAP_KEYS, text_cleaned, StartMultiplierAt(m),
                                 m.multiplier)
        /\ m.kind = "end" =>
             /\ LongestTokenAt(CURRENCY_TOKENS, text_cleaned, m.start, m.currency)
             /\ m.multiplier # <<>> =>
                  LongestTokenAt(MULTIPLIER_MAP_KEYS, text_cleaned,
                                 m.end - Len(m.multiplier), m.multiplier)
        /\ m.kind = "slang" =>
             LongestTokenAt(SLANG_TOKENS, text_cleaned, m.end - Len(m.word), m.word)

C12_Witness ==
  /\ pc = "done"
  /\ Len(trace) = 1
  /\ trace[1].match.kind = "start"
  /\ trace[1].match.currency = Lyam \o <<"cy_o", "cy_v">>
  /\ TokensAt(CURRENCY_TOKENS, text_cleaned, trace[1].match.end - 5) =
       {Lyam, Lyam \o <<"cy_o", "cy_v">>}
  /\ results = <<Price(Million, RUB)>>

\* The next match is none, or one whose amount float() accepts and that ends
\* after the place the search started from, inside the text
StepReturnsOrAdvances(m) ==
  \/ m = NoMatch
  \/ /\ ~Raises(m)
     /\ pos < m.end
     /\ m.end <= Len(text_cleaned) + 1

(* C13: parse never leaves by an exception; each turn of either loop ends the   *)
(* loop or moves the search forward inside the text, so the loop runs at most   *)
(* once per character and parse returns; for the empty string and for           *)
(* whitespace alone the list returned is empty, in either mode.                 *)
C13_Totality ==
  /\ pc # "raised"
  /\ pc = "scan" => StepReturnsOrAdvances(SearchCombined(text_cleaned, pos))
  /\ pc = "fast" => StepReturnsOrAdvances(SearchSlang(text_cleaned, pos))
  /\ pc \in {"scan", "fast"} => Len(trace) < pos /\ pos <= Len(text_cleaned) + 1
  /\ (pc = "done" /\ \A k \in DOMAIN text : IsSpace(text[k])) => results = <<>>

C13_Witness ==
  /\ pc = "done"
  /\ strict_mode
  /\ text = <<" ", " ", " ">>
  /\ results = <<>>

C15_CurrencyFirstPrice ==
  \A i \in EntriesOf({"end"}) :
    LET m == trace[i].match
    IN  (m.currency \in SLANG_MAP_KEYS /\ (~strict_mode \/ m.currency \in SYMBOLS)) =>
          trace[i].prices =
            <<Price(Times(SeparatorValue(m.amount), FactorOf(m.multiplier)),
                    Entry(SLANG_MAP, m.currency)[2])>>

C15_Witness ==
  /\ pc = "done"
  /\ ~strict_mode
  /\ text = USD \o <<"1", "k">>
  /\ Len(trace) = 1
  /\ trace[1].match.kind = "end"
  /\ trace[1].match.currency = Lower(USD)
  /\ results = <<Price(PowerOfTen(3), USD)>>

(* C21: the currency token of a currency-first match is a key of SLANG_MAP and  *)
(* no member of IMPLIED_RUBLE_TOKENS, so that in loose mode every such match    *)
(* gives a price.  _CURRENCY_TOKENS holds the implied-ruble words in both       *)
(* patterns, so the statement does not hold.                                   *)
C21_CurrencyFirstTokenIsSynonym ==
  \A i \in EntriesOf({"end"}) :
    /\ trace[i].match.currency \in SLANG_MAP_KEYS
    /\ trace[i].match.currency \notin IMPLIED_RUBLE_TOKENS
    /\ ~strict_mode => Len(trace[i].prices) = 1

\* The multipliers that imply no currency: k, m, their Cyrillic forms and the
\* number words
PlainMultipliers == MULTIPLIER_MAP_KEYS \ IMPLIED_RUBLE_TOKENS

\* s is a number, then whitespace or none, then a plain multiplier, and nothing else
NumberThenPlainMultiplier(s) ==
  \E ne \in Range(NumberEnds(s, 1)) :
    \E w \in Range(SpacesEnds(s, ne)) :
      /\ Slice(s, w, Len(s) + 1) \in PlainMultipliers
      /\ Len(s) + 1 \in Range(MULTIPLIER_REGEX(s, w))

(* C22: a multiplier that implies no currency is never the currency token of a  *)
(* match, a text that is a number followed by such a multiplier alone gives no  *)
(* price, and in loose mode every number-first match gives exactly one price.   *)
C22_PlainMultiplierNoCurrency ==
  /\ \A i \in EntriesOf({"start", "end"}) :
       trace[i].match.currency \notin PlainMultipliers
  /\ ~strict_mode => \A i \in EntriesOf({"start"}) : Len(trace[i].prices) = 1
  /\ (pc = "done" /\ NumberThenPlainMultiplier(text_cleaned)) => results = <<>>

\* "1000 k" gives nothing
C22_Witness ==
  /\ pc = "done"
  /\ ~strict_mode
  /\ text = <<"1", "0", "0", "0", " ", "k">>
  /\ NumberThenPlainMultiplier(text_cleaned)
  /\ results = <<>>

LowercaseOf(c, d) ==
  \/ d \notin UpperChars /\ c = d
  \/ \E k \in DOMAIN UpperSeq : UpperSeq[k] = d /\ LowerSeq[k] = c

RECURSIVE SeparatorCount(_)
SeparatorCount(str) ==
  IF str = <<>> THEN 0
  ELSE (IF Head(str) \in {",", "."} THEN 1 ELSE 0) + SeparatorCount(Tail(str))

\* The currency a token of the grouped texts stands for
GroupCurrencyCode(c) == IF c = <<"$">> THEN USD ELSE Upper(Tail(c))

(* C24: a numeric literal captured by the matcher has at most one separator;    *)
(* for a text g1,g2.g3 followed by a currency token, recognize returns exactly  *)
(* one price, of amount g2.g3 in that currency: the leading group and its        *)
(* separator are ignored.                                                        *)
C24_OneSeparatorPerLiteral ==
  /\ \A i \in EntriesOf({"start", "end"}) : SeparatorCount(trace[i].match.amount) <= 1
  /\ \A g1 \in GroupDigits, g2 \in GroupDigits, g3 \in GroupDigits, c \in GroupCurrencies :
       (~strict_mode /\ text = g1 \o <<",">> \o g2 \o <<".">> \o g3 \o c) =>
         /\ pc # "raised"
         /\ pc = "done" =>
              results = <<Price(Canon(IntOf(g2 \o g3), 0 - Len(g3)), GroupCurrencyCode(c))>>

\* "1,000.05 USD" gives 0.05 USD
C24_Witness ==
  /\ pc = "done"
  /\ ~strict_mode
  /\ text = <<"1", ",", "0", "0", "0", ".", "0", "5", " ">> \o USD
  /\ results = <<Price([m |-> 5, e |-> -2], USD)>>
  /\ Len(trace) = 1
  /\ trace[1].match.amount = <<"0", "0", "0", ".", "0", "5">>

(* C25: _normalize_amount never raises: for every string over digits, '.' and   *)
(* ',', literals with several separators such as "1,5,0" or "1.000,5" included, *)
(* the call returns and no exception leaves it.                                  *)
C25_NormalizeNeverRaises ==
  pc = "normalized" => amount_out # ValueError

\* The coroutines inside _fetch_rates
Fetching == {t \in Coroutines : tasks[t].pc = "fetch"}

\* The cache as a caller that has just been given the lock finds it: filled, and
\* no older than CACHE_TTL
CacheFresh ==
  /\ rates_service.rates # {}
  /\ now - rates_service.last_updated <= CACHE_TTL

(* C26: get_rates prevents a cache stampede.  At most one coroutine is inside   *)
(* _fetch_rates at a time, and it holds the lock; a caller that found the cache *)
(* empty or stale while a fetch was in progress waits for the lock, and when it  *)
(* gets it after a fetch that filled the cache (within CACHE_TTL of that fetch)  *)
(* it starts no fetch of its own and returns the table the fetch stored.         *)
C26_NoCacheStampede ==
  /\ [](/\ Cardinality(Fetching) <= 1
        /\ \A t \in Fetching : rates_service.lock = t
        /\ \A t \in Coroutines : tasks[t].pc = "lock" => tasks[t].op = "get_rates")
  /\ [][\A t \in Coroutines :
          (tasks[t].pc = "lock" /\ tasks'[t].pc # "lock" /\ CacheFresh) =>
            /\ tasks'[t].pc = "idle"
            /\ Fetching' = {}
            /\ last_return'.task = t
            /\ ~last_return'.fetched
            /\ last_return'.rates = rates_service.rates
            /\ rates_service' = rates_service]_vars

\* Two callers found the cache empty: one is fetching, the other waits
C26_Witness ==
  \E t \in Coroutines, u \in Coroutines :
    /\ t # u
    /\ tasks[t].pc = "fetch"
    /\ tasks[u].pc = "lock"
    /\ rates_service.lock = t
    /\ rates_service.rates = {}

\* The waiting caller has returned the table the other caller fetched
C26_WitnessReturned ==
  /\ last_return.task = "t2"
  /\ ~last_return.fetched
  /\ last_return.rates = {<<USD, 1>>, <<EUR, 2>>}
  /\ ticks = 0

(* C27: when a refresh fails (_fetch_rates returns None), get_rates leaves      *)
(* rates and last_updated as they were, returns the table that was cached, and  *)
(* _consecutive_failures has grown by exactly 1.                                 *)
C27_FailedRefreshKeepsCache ==
  [][FetchFails =>
       /\ rates_service'.rates = rates_service.rates
       /\ rates_service'.last_updated = rates_service.last_updated
       /\ rates_service'.consecutive_failures = rates_service.consecutive_failures + 1
       /\ last_return'.fetched
       /\ last_return'.rates = rates_service.rates]_vars

\* A refresh of a stale table failed: the table of the last success is returned
C27_Witness ==
  /\ last_return.fetched
  /\ last_return.rates = {<<USD, 1>>, <<EUR, 2>>}
  /\ rates_service.rates = {<<USD, 1>>, <<EUR, 2>>}
  /\ rates_service.consecutive_failures = 1
  /\ rates_service.last_updated = StartTime
  /\ now = StartTime + 3601
  /\ last_failure = now
  /\ \A t \in Coroutines : tasks[t].pc = "idle"

\* The table holds a rate of a currency other than USD
HoldsNonUSD(table) == Keys(table) \ {USD} # {}

(* C29: a refresh in which no non-USD rate could be extracted never overwrites  *)
(* a cached table that holds non-USD rates: once rates holds a non-USD currency *)
(* it keeps holding one, and a refresh that ends with a table of USD alone does  *)
(* not advance last_updated.                                                     *)
C29_UsdOnlyRefreshKeepsCache ==
  [][/\ HoldsNonUSD(rates_service.rates) => HoldsNonUSD(rates_service'.rates)
     /\ \A t \in Coroutines :
          (/\ tasks[t].pc = "fetch"
           /\ tasks'[t].pc = "idle"
           /\ ~HoldsNonUSD(last_return'.rates)) =>
            rates_service'.last_updated = rates_service.last_updated]_vars

(* C30: settings-cache coherence under interleaving.  When a call of             *)
(* get_target_currencies that missed the cache and one other call for the chat, *)
(* a toggle_currency among them, have both completed, the get last, the cache   *)
(* entry of the chat equals the committed target_currencies: a value read       *)
(* before the toggle is never stored in the cache after the toggle's update.    *)
C30_CacheCoherentAfterRace ==
  \A c \in ChatIds :
    (/\ \A t \in DalCoroutines : dal_tasks[t].pc = "idle"
     /\ dal_calls = 2
     /\ dal_return.op = "get_target_currencies"
     /\ dal_return.chat_id = c
     /\ dal_return.stale
     /\ ~dal_return.raised) =>
      /\ settings_cache[c] # <<>>
      /\ chat_settings[c] # <<>>
      /\ settings_cache[c][1].data = chat_settings[c][1]

(* C28: the last target currency of a chat cannot be disabled.  Starting from a *)
(* non-empty target_currencies, after any sequence of on_toggle_currency        *)
(* callbacks for the chat, callbacks that interleave at their awaits included,  *)
(* the stored target_currencies is never empty; a callback for the only         *)
(* currency on the list it read ends without a write.                           *)
C28_LastCurrencyStays ==
  /\ \A c \in ChatIds : chat_settings[c] # <<>> /\ chat_settings[c][1] # <<>>
  /\ \A t \in DalCoroutines :
       dal_tasks[t].pc \in {"commit", "refresh", "refreshed"} =>
         dal_tasks[t].settings[1] # <<>>
  /\ dal_return.op = "on_toggle_currency" =>
       /\ dal_return.loaded = <<<<dal_return.code>>>>
       /\ dal_return.value = <<>>

\* Two callbacks have read ["USD", "EUR"], each is about to store the list
\* without its own currency
C28_Witness ==
  /\ chat_settings[12345] = <<<<USD, EUR>>>>
  /\ dal_tasks["d1"].pc = "commit"
  /\ dal_tasks["d1"].settings = <<<<EUR>>>>
  /\ dal_tasks["d2"].pc = "commit"
  /\ dal_tasks["d2"].settings = <<<<USD>>>>

\* The only currency left was pressed and refused
C28_WitnessRefused ==
  /\ dal_return.op = "on_toggle_currency"
  /\ dal_return.code = USD
  /\ chat_settings[12345] = <<<<USD>>>>
  /\ dal_calls = 3
  /\ settings_cache[12345] # <<>>

====
